---- MODULE Spec2Model ----
(***************************************************************************)
(* Adapter-switching, evaluation and training protocol of the calibration  *)
(* tuning harness: UncertaintyTuner (llm/utils/uncertainty_tuner.py), the   *)
(* evaluation driver evaluate_via_eos (llm/eval/eos.py) and the generation  *)
(* evaluation loop (experiments/evaluate_gen.py); and, each under its own   *)
(* specification, the loss reduction of compute_kl_loss (SpecKl), the       *)
(* LabeledStringDataCollator (SpecCollator), the Text Records from the      *)
(* dataset formatters to the model call (SpecRecords), temperature          *)
(* preparation and checkpointing (SpecCkpt), and the dataset formatters,    *)
(* constructors and combination, the output generation script and           *)
(* evaluate_dataset, each as a call with its outcome (SpecFn).              *)
(***************************************************************************)
EXTENDS Integers, Sequences, FiniteSets, TLC

\* ------------------------------------------------------------------ bounds
MaxSteps == 2        \* training steps taken before the run is stopped
MaxEvalSteps == 2    \* largest evaluation cadence args.eval_steps drawn
MaxProcs == 2        \* largest accelerator.num_processes drawn
MaxData == 3         \* largest number of examples in an evaluation split
MaxInv == 2          \* invocations of compute_loss that share one model
MaxLoss == 1         \* largest value drawn for unc_loss and for the divergence
MaxSeq == 3          \* longest token sequence of a batch (model_max_length)
MaxPrefix == 2       \* most tokens of a record's text before the target
MaxTarget == 2       \* most tokens of a record's target
MaxRows == 1         \* most rows of a split of a hub dataset
MaxChoices == 3      \* most answer choices of a truthful_qa sample
MinRegistered == 6   \* fewest of the known names that list_datasets() returns
MaxSize == 2         \* size of a small training split of a member dataset
MaxN == 3            \* largest small max_n of a combination

\* --------------------------------------------------------------- constants
DEFAULT == "default"     \* the trainable adapter
QUERY == "query"         \* optional adapter for the confidence query
REF == "_ref"            \* Args.ref_adapter_name default
NOADAPTER == "base"      \* a model that is not a PeftModel has no adapter

KlSupported == {"reverse_kl", "forward_kl", "jsd"}
KlTypes == KlSupported \cup {"renyi"}

Invs == 1..MaxInv

\* Args.kl_decay values drawn (the default 0.0 and a positive weight).
KlDecays == {0, 2}

\* IGNORE_LABEL of llm_utils: the label of a position that carries no loss.
IGNORE_LABEL == -100
\* Token ids: a token of the target, a token of the text before it, the pad token.
ANSWER_TOKEN == 7
PROMPT_TOKEN == 5
PAD_TOKEN == 2

\* Values a loss term can take; -1 stands for a local not assigned yet.
LossValues == 0..MaxLoss
NoLoss == [unc |-> -1, kl |-> -1, total |-> -1]

VARIABLES
    args,          \* UncertaintyTuner.Args: kl_type, scale_temp, ref_adapter_name, eval_steps
    is_peft,       \* isinstance(model, PeftModel)
    peft_config,   \* names of the adapters the model carries
    active,        \* [rank -> active adapter of that process's model object]
    phase,         \* trainer: "new", "train", "eval", "finished", "aborted", "off"
    global_step,   \* self.state.global_step
    ninv,          \* number of compute_loss invocations running on the one model
    loss,          \* [Invs -> unc_loss, kl_loss, total_loss of the current compute_loss call]
    tpc,           \* [Invs -> position inside compute_loss]
    tlog,          \* [Invs -> events of the current compute_loss call]
    texc,          \* [Invs -> exception that left compute_loss, or "none"]
    splits,        \* the held-out splits the tuner was given: val_data, test_data
    todo,          \* splits the running evaluate() call still has to evaluate
    nproc,         \* accelerator.num_processes
    data_len,      \* number of examples of the split being evaluated
    correct,       \* [example -> model's greedy answer equals the target]
    prog,          \* evaluation routine the processes run: "eos", "gen", "none"
    epc,           \* [rank -> position inside the evaluation routine]
    round,         \* [rank -> index of the batch being processed]
    visited,       \* [rank -> batches fetched from the loader, in order]
    elog,          \* [rank -> events of the current batch]
    cur,           \* [rank -> example / prediction / query of the current batch]
    contributed,   \* <<collective, round, rank>> that entered a gather
    gathers,       \* [rank -> number of gathers completed in the current batch]
    acc,           \* [rank -> accumulated (gathered) example results]
    counts,        \* [rank -> the counters N and N_acc of evaluate_gen.evaluate]
    result,        \* [rank -> returned metric dictionary, or empty]
    eexc,          \* [rank -> exception that left the evaluation routine, or "none"]
    kl_in,         \* compute_kl_loss: labels and per-token divergences of one batch
    kl_out,        \* compute_kl_loss: loss_mask and the reduced loss
    tokenizer,     \* collator: the tokenizer's padding_side and model_max_length
    instances,     \* collator: the records of the batch being collated
    batch,         \* collator: the tokenized batch (input_ids, attention_mask, labels)
    cpc,           \* collator: position inside __call__
    rcfg,          \* records: dataset, prompt style, k-shot, evaluation routine, sample labels
    records,       \* records: the Text Records of one batch, field -> value
    rlog,          \* records: writes made to records after their construction
    targets,       \* records: the targets an evaluation routine took out of its batch
    calls,         \* records: the model calls of the batch, with their collated inputs
    ref_labels,    \* records: the reference labels derived for the batch
    rpc,           \* records: position in the life of the batch
    tuner,         \* checkpoint: the trainer class whose _save runs
    params,        \* checkpoint: [parameter name -> requires_grad] of the model
    prepared,      \* checkpoint: calls of prepare_model_for_temperature_scaling so far
    ckpt,          \* checkpoint: the files _save has written, with the keys they hold
    fn_call,       \* call: the function called and its arguments
    fn_pc,         \* call: position inside the function
    fn_log,        \* call: what the function has done so far, in order
    fn_ret         \* call: the value returned or the exception raised

modelVars == <<args, is_peft, peft_config, active>>
trainVars == <<phase, global_step, ninv, loss, tpc, tlog, texc, splits, todo>>
\* Tensors of the functions that are exercised on their own.
klVars == <<kl_in, kl_out>>
collVars == <<tokenizer, instances, batch, cpc>>
recVars == <<rcfg, records, rlog, targets, calls, ref_labels, rpc>>
ckptVars == <<tuner, params, prepared, ckpt>>
fnVars == <<fn_call, fn_pc, fn_log, fn_ret>>
unitVars == <<klVars, collVars, recVars, ckptVars, fnVars>>
evalVars == <<nproc, data_len, correct, prog, epc, round, visited, elog, cur,
              contributed, gathers, acc, counts, result, eexc, unitVars>>
vars == <<modelVars, trainVars, evalVars>>

Ranks == 0..(MaxProcs - 1)
Live == 0..(nproc - 1)

\* ------------------------------------------------------------ the model
\* PeftModel.set_adapter(name): selects the active adapter of the model object.
set_adapter(r, name) == active' = [active EXCEPT ![r] = name]

\* One event of a call: what ran, under which active adapter, with gradients or not.
Event(op, adapter, grad) == [op |-> op, adapter |-> adapter, grad |-> grad]

Ops(log) == [j \in 1..Len(log) |-> log[j].op]

Last(log) == log[Len(log)]

NoResult == <<>>
NoBatch == [ex |-> -1, pred |-> -1, query |-> -1]

\* ------------------------------------------------- evaluation pass set-up
\* State of the evaluation variables while no evaluation routine runs.
EvalIdle ==
    /\ epc = [r \in Ranks |-> "off"]
    /\ round = [r \in Ranks |-> 0]
    /\ visited = [r \in Ranks |-> <<>>]
    /\ elog = [r \in Ranks |-> <<>>]
    /\ cur = [r \in Ranks |-> NoBatch]
    /\ contributed = {}
    /\ gathers = [r \in Ranks |-> 0]
    /\ acc = [r \in Ranks |-> <<>>]
    /\ counts = [r \in Ranks |-> [N |-> 0, N_acc |-> 0]]
    /\ result = [r \in Ranks |-> <<>>]
    /\ eexc = [r \in Ranks |-> "none"]

\* evaluate_via_eos entry: fresh accumulators, every process at the loop head.
StartEvalPass ==
    /\ epc' = [r \in Ranks |-> IF r \in Live THEN "loop" ELSE "off"]
    /\ round' = [r \in Ranks |-> 0]
    /\ visited' = [r \in Ranks |-> <<>>]
    /\ elog' = [r \in Ranks |-> <<>>]
    /\ cur' = [r \in Ranks |-> NoBatch]
    /\ contributed' = {}
    /\ gathers' = [r \in Ranks |-> 0]
    /\ acc' = [r \in Ranks |-> <<>>]
    /\ counts' = [r \in Ranks |-> [N |-> 0, N_acc |-> 0]]
    /\ result' = [r \in Ranks |-> <<>>]
    /\ eexc' = [r \in Ranks |-> "none"]

\* The evaluation driver has returned: its locals are gone.
EndEvalPass ==
    /\ epc' = [r \in Ranks |-> "off"]
    /\ round' = [r \in Ranks |-> 0]
    /\ visited' = [r \in Ranks |-> <<>>]
    /\ elog' = [r \in Ranks |-> <<>>]
    /\ cur' = [r \in Ranks |-> NoBatch]
    /\ contributed' = {}
    /\ gathers' = [r \in Ranks |-> 0]
    /\ acc' = [r \in Ranks |-> <<>>]
    /\ counts' = [r \in Ranks |-> [N |-> 0, N_acc |-> 0]]
    /\ result' = [r \in Ranks |-> <<>>]
    /\ eexc' = [r \in Ranks |-> "none"]

\* ------------------------------------------------ UncertaintyTuner
\* The trainer is process 0; every invocation of its training step works on
\* that process's model object.
\* Variant of the constructor that validates kl_type and rejects the run.
ConstructChecked ==
    /\ phase = "new"
    /\ phase' = IF args.kl_type \in KlSupported THEN "train" ELSE "rejected"
    /\ UNCHANGED <<modelVars, global_step, ninv, loss, tpc, tlog, texc, splits, todo, evalVars>>

\* UncertaintyTuner.__init__ with its Args: the dataclass fields are stored as
\* given; no field is validated.
Construct ==
    /\ phase = "new"
    /\ phase' = "train"
    /\ UNCHANGED <<modelVars, global_step, ninv, loss, tpc, tlog, texc, splits, todo, evalVars>>

\* An exception leaving compute_loss propagates out of the trainer: nothing
\* catches it and nothing retries.
Raise(i, exc) ==
    /\ tpc' = [tpc EXCEPT ![i] = "raised"]
    /\ texc' = [texc EXCEPT ![i] = exc]
    /\ phase' = "aborted"

\* The training loop calls compute_loss for the next batch.
StepBegin(i) ==
    /\ phase = "train"
    /\ i \in 1..ninv
    /\ tpc[i] = "idle"
    /\ global_step < MaxSteps
    /\ tpc' = [tpc EXCEPT ![i] = "primary"]
    /\ tlog' = [tlog EXCEPT ![i] = <<>>]
    /\ loss' = [loss EXCEPT ![i] = NoLoss]
    /\ UNCHANGED <<modelVars, phase, global_step, ninv, texc, splits, todo, evalVars>>

\* compute_loss: super().compute_loss(model, inputs, return_outputs=True), the
\* primary forward pass, with gradients, through whatever adapter is active.
PrimaryForward(i) ==
    /\ tpc[i] = "primary"
    /\ \/ /\ tlog' = [tlog EXCEPT ![i] = Append(@, Event("primary_fwd", active[0], TRUE))]
          /\ tpc' = [tpc EXCEPT ![i] = "unc"]
          /\ UNCHANGED <<phase, texc>>
       \/ /\ Raise(i, "RuntimeError")
          /\ UNCHANGED tlog
    /\ UNCHANGED <<modelVars, global_step, ninv, loss, splits, todo, evalVars>>

\* compute_unc_loss: build the confidence query from the primary outputs and
\* run the confidence-query forward pass, with gradients; unc_loss is the
\* cross entropy of its logits.
compute_unc_loss(i) ==
    /\ tpc[i] = "unc"
    /\ \/ /\ tlog' = [tlog EXCEPT ![i] = Append(@, Event("query_fwd", active[0], TRUE))]
          /\ \E v \in LossValues : loss' = [loss EXCEPT ![i].unc = v]
          /\ tpc' = [tpc EXCEPT ![i] = "branch"]
          /\ UNCHANGED <<phase, texc>>
       \/ /\ Raise(i, "RuntimeError")
          /\ UNCHANGED <<tlog, loss>>
    /\ UNCHANGED <<modelVars, global_step, ninv, splits, todo, evalVars>>

\* Variant of the branch that calls compute_kl_loss whatever scale_temp is.
KlBranchAlways(i) ==
    /\ tpc[i] = "branch"
    /\ tpc' = [tpc EXCEPT ![i] = "kl_set"]
    /\ UNCHANGED <<modelVars, phase, global_step, ninv, loss, tlog, texc, splits, todo, evalVars>>

\* compute_loss: with scale_temp kl_loss = torch.tensor(0.0), otherwise
\* compute_kl_loss is called.
KlBranch(i) ==
    /\ tpc[i] = "branch"
    /\ IF args.scale_temp
       THEN /\ loss' = [loss EXCEPT ![i].kl = 0]
            /\ tpc' = [tpc EXCEPT ![i] = "total"]
       ELSE /\ tpc' = [tpc EXCEPT ![i] = "kl_set"]
            /\ UNCHANGED loss
    /\ UNCHANGED <<modelVars, phase, global_step, ninv, tlog, texc, splits, todo, evalVars>>

\* compute_kl_loss: model.module.set_adapter(self.args.ref_adapter_name)
KlSetRef(i) ==
    /\ tpc[i] = "kl_set"
    /\ set_adapter(0, args.ref_adapter_name)
    /\ tlog' = [tlog EXCEPT ![i] = Append(@, Event("set_adapter", args.ref_adapter_name, FALSE))]
    /\ tpc' = [tpc EXCEPT ![i] = "kl_fwd"]
    /\ UNCHANGED <<args, is_peft, peft_config, phase, global_step, ninv, loss, texc, splits, todo, evalVars>>

\* compute_kl_loss: ref_outputs = model.module(**inputs) under inference_mode.
\* The call is not guarded: when it raises, the next statement is not reached.
KlRefForward(i) ==
    /\ tpc[i] = "kl_fwd"
    /\ \/ /\ tlog' = [tlog EXCEPT ![i] = Append(@, Event("ref_fwd", active[0], FALSE))]
          /\ tpc' = [tpc EXCEPT ![i] = "kl_restore"]
          /\ UNCHANGED <<phase, texc>>
       \/ /\ Raise(i, "RuntimeError")
          /\ UNCHANGED tlog
    /\ UNCHANGED <<modelVars, global_step, ninv, loss, splits, todo, evalVars>>

\* Variant of the restore that forgets to switch the adapter back.
KlRestoreSkipped(i) ==
    /\ tpc[i] = "kl_restore"
    /\ tpc' = [tpc EXCEPT ![i] = "kl_div"]
    /\ UNCHANGED <<modelVars, phase, global_step, ninv, loss, tlog, texc, splits, todo, evalVars>>

\* compute_kl_loss: model.module.set_adapter("default")
KlRestore(i) ==
    /\ tpc[i] = "kl_restore"
    /\ set_adapter(0, DEFAULT)
    /\ tlog' = [tlog EXCEPT ![i] = Append(@, Event("set_adapter", DEFAULT, FALSE))]
    /\ tpc' = [tpc EXCEPT ![i] = "kl_div"]
    /\ UNCHANGED <<args, is_peft, peft_config, phase, global_step, ninv, loss, texc, splits, todo, evalVars>>

\* compute_kl_loss: the divergence selected by kl_type, masked and reduced;
\* any other kl_type raises NotImplementedError here.
KlDivergence(i) ==
    /\ tpc[i] = "kl_div"
    /\ IF args.kl_type \in KlSupported
       THEN /\ tlog' = [tlog EXCEPT ![i] = Append(@, Event(args.kl_type, active[0], TRUE))]
            /\ \E v \in LossValues : loss' = [loss EXCEPT ![i].kl = v]
            /\ tpc' = [tpc EXCEPT ![i] = "total"]
            /\ UNCHANGED <<phase, texc>>
       ELSE /\ Raise(i, "NotImplementedError")
            /\ UNCHANGED <<tlog, loss>>
    /\ UNCHANGED <<modelVars, global_step, ninv, splits, todo, evalVars>>

\* compute_loss: total_loss = unc_loss + kl_decay * kl_loss, logged and returned.
TotalLoss(i) ==
    /\ tpc[i] = "total"
    /\ tlog' = [tlog EXCEPT ![i] = Append(@, Event("total_loss", active[0], TRUE))]
    /\ loss' = [loss EXCEPT ![i].total = loss[i].unc + args.kl_decay * loss[i].kl]
    /\ tpc' = [tpc EXCEPT ![i] = "returned"]
    /\ UNCHANGED <<modelVars, phase, global_step, ninv, texc, splits, todo, evalVars>>

\* ------------------------------------------------ loader and collectives
\* The prepared loader yields one example per batch (batch_size == 1 is asserted
\* by the callers) and deals the batches round-robin to the processes; every
\* process gets the same number of batches, the last round being completed by
\* wrapping around to the first examples.
NumBatches == IF data_len = 0 THEN 0 ELSE (data_len + nproc - 1) \div nproc

Example(k, r) == (k * nproc + r) % data_len

Remainder == data_len % nproc

\* accelerator.gather: the per-process results of one round, in rank order.
gather(k) == [q \in 1..nproc |-> Example(k, q - 1)]

\* accelerator.gather_for_metrics: gather, with the wrapped-around duplicates of
\* the loader's last round dropped.
gather_for_metrics(k) ==
    IF k = NumBatches - 1 /\ Remainder > 0
    THEN SubSeq(gather(k), 1, Remainder)
    ELSE gather(k)

\* A blocking collective is left only when every process has entered it.
AllEntered(c, k) == \A q \in Live : <<c, k, q>> \in contributed

Range(s) == {s[j] : j \in 1..Len(s)}

eosFrame == <<nproc, data_len, correct, prog, counts, unitVars>>
trainRest == <<global_step, ninv, loss, tpc, tlog, texc, splits, todo>>

\* An exception leaving the evaluation routine is not caught by its caller.
ERaise(r, exc) ==
    /\ epc' = [epc EXCEPT ![r] = "raised"]
    /\ eexc' = [eexc EXCEPT ![r] = exc]
    /\ phase' = IF phase = "eval" THEN "aborted" ELSE phase

\* ------------------------------------------------ evaluate_via_eos (eos.py)
\* Variant of the batch head that does not re-select the "default" adapter.
EosFetchNoSelect(r) ==
    /\ prog = "eos" /\ epc[r] = "loop" /\ round[r] < NumBatches
    /\ visited' = [visited EXCEPT ![r] = Append(@, round[r])]
    /\ cur' = [cur EXCEPT ![r] = [ex |-> Example(round[r], r), pred |-> -1, query |-> -1]]
    /\ gathers' = [gathers EXCEPT ![r] = 0]
    /\ elog' = [elog EXCEPT ![r] = <<>>]
    /\ epc' = [epc EXCEPT ![r] = "primary"]
    /\ UNCHANGED <<modelVars, phase, trainRest, eosFrame,
                   round, contributed, acc, result, eexc>>

\* for inputs in tqdm(loader): next batch, targets popped, inputs collated,
\* and for a PeftModel model.set_adapter("default").
EosFetch(r) ==
    /\ prog = "eos" /\ epc[r] = "loop" /\ round[r] < NumBatches
    /\ visited' = [visited EXCEPT ![r] = Append(@, round[r])]
    /\ cur' = [cur EXCEPT ![r] = [ex |-> Example(round[r], r), pred |-> -1, query |-> -1]]
    /\ gathers' = [gathers EXCEPT ![r] = 0]
    /\ IF is_peft
       THEN /\ set_adapter(r, DEFAULT)
            /\ elog' = [elog EXCEPT ![r] = <<Event("set_adapter", DEFAULT, FALSE)>>]
       ELSE /\ UNCHANGED active
            /\ elog' = [elog EXCEPT ![r] = <<>>]
    /\ epc' = [epc EXCEPT ![r] = "primary"]
    /\ UNCHANGED <<args, is_peft, peft_config, phase, trainRest, eosFrame,
                   round, contributed, acc, result, eexc>>

\* Variant of the primary forward pass that retries after a failure.
EosPrimaryForwardRetry(r) ==
    /\ prog = "eos" /\ epc[r] = "primary"
    /\ elog' = [elog EXCEPT ![r] = Append(@, Event("primary_fwd", active[r], FALSE))]
    /\ \/ epc' = [epc EXCEPT ![r] = "predict"]
       \/ /\ Len(elog[r]) < 3
          /\ UNCHANGED epc
    /\ UNCHANGED <<modelVars, phase, trainRest, eosFrame, round, visited, cur,
                   contributed, gathers, acc, result, eexc>>

\* generation_outputs = model(**generation_inputs)
EosPrimaryForward(r) ==
    /\ prog = "eos" /\ epc[r] = "primary"
    /\ \/ /\ elog' = [elog EXCEPT ![r] = Append(@, Event("primary_fwd", active[r], FALSE))]
          /\ epc' = [epc EXCEPT ![r] = "predict"]
          /\ UNCHANGED <<phase, eexc>>
       \/ /\ ERaise(r, "RuntimeError")
          /\ UNCHANGED elog
    /\ UNCHANGED <<modelVars, trainRest, eosFrame, round, visited, cur,
                   contributed, gathers, acc, result>>

\* labels from the targets, preds = logits.argmax, generations = batch_decode(preds)
EosPredict(r) ==
    /\ prog = "eos" /\ epc[r] = "predict"
    /\ cur' = [cur EXCEPT ![r].pred = cur[r].ex]
    /\ elog' = [elog EXCEPT ![r] = Append(@, Event("predict", active[r], FALSE))]
    /\ epc' = [epc EXCEPT ![r] = "build"]
    /\ UNCHANGED <<modelVars, phase, trainRest, eosFrame, round, visited,
                   contributed, gathers, acc, result, eexc>>

\* prepare_uncertainty_query from the generations, collate, and for a PeftModel
\* that has a "query" adapter model.set_adapter("query").
EosBuildQuery(r) ==
    /\ prog = "eos" /\ epc[r] = "build"
    /\ cur' = [cur EXCEPT ![r].query = cur[r].pred]
    /\ IF is_peft /\ QUERY \in peft_config
       THEN /\ set_adapter(r, QUERY)
            /\ elog' = [elog EXCEPT ![r] = @ \o <<Event("build_query", active[r], FALSE),
                                                  Event("set_adapter", QUERY, FALSE)>>]
       ELSE /\ UNCHANGED active
            /\ elog' = [elog EXCEPT ![r] = Append(@, Event("build_query", active[r], FALSE))]
    /\ epc' = [epc EXCEPT ![r] = "query"]
    /\ UNCHANGED <<args, is_peft, peft_config, phase, trainRest, eosFrame,
                   round, visited, contributed, gathers, acc, result, eexc>>

\* q_generation_outputs = model(**q_generation_inputs)
EosQueryForward(r) ==
    /\ prog = "eos" /\ epc[r] = "query"
    /\ \/ /\ elog' = [elog EXCEPT ![r] = Append(@, Event("query_fwd", active[r], FALSE))]
          /\ epc' = [epc EXCEPT ![r] = "gather"]
          /\ UNCHANGED <<phase, eexc>>
       \/ /\ ERaise(r, "RuntimeError")
          /\ UNCHANGED elog
    /\ UNCHANGED <<modelVars, trainRest, eosFrame, round, visited, cur,
                   contributed, gathers, acc, result>>

\* accelerator.gather_for_metrics((labels, logits, q_labels, q_logits)): the
\* process hands in its batch result and blocks.
EosGatherEnter(r) ==
    /\ prog = "eos" /\ epc[r] = "gather"
    /\ contributed' = contributed \cup {<<"metrics", round[r], r>>}
    /\ epc' = [epc EXCEPT ![r] = "wait"]
    /\ UNCHANGED <<modelVars, phase, trainRest, eosFrame, round, visited, elog,
                   cur, gathers, acc, result, eexc>>

\* Variant of the gather that keeps only the process's own batch result.
EosGatherExitLocal(r) ==
    /\ prog = "eos" /\ epc[r] = "wait"
    /\ AllEntered("metrics", round[r])
    /\ acc' = [acc EXCEPT ![r] = Append(@, cur[r].ex)]
    /\ gathers' = [gathers EXCEPT ![r] = @ + 1]
    /\ elog' = [elog EXCEPT ![r] = Append(@, Event("gather", active[r], FALSE))]
    /\ round' = [round EXCEPT ![r] = @ + 1]
    /\ epc' = [epc EXCEPT ![r] = "loop"]
    /\ UNCHANGED <<modelVars, phase, trainRest, eosFrame, visited, cur,
                   contributed, result, eexc>>

\* Variant of the gather that does not wait for the peers.
EosGatherExitNoWait(r) ==
    /\ prog = "eos" /\ epc[r] = "wait"
    /\ acc' = [acc EXCEPT ![r] = @ \o gather_for_metrics(round[r])]
    /\ gathers' = [gathers EXCEPT ![r] = @ + 1]
    /\ elog' = [elog EXCEPT ![r] = Append(@, Event("gather", active[r], FALSE))]
    /\ round' = [round EXCEPT ![r] = @ + 1]
    /\ epc' = [epc EXCEPT ![r] = "loop"]
    /\ UNCHANGED <<modelVars, phase, trainRest, eosFrame, visited, cur,
                   contributed, result, eexc>>

\* ... and, once every process has handed in, appends the gathered results to
\* its accumulators and goes to the next batch.
EosGatherExit(r) ==
    /\ prog = "eos" /\ epc[r] = "wait"
    /\ AllEntered("metrics", round[r])
    /\ acc' = [acc EXCEPT ![r] = @ \o gather_for_metrics(round[r])]
    /\ gathers' = [gathers EXCEPT ![r] = @ + 1]
    /\ elog' = [elog EXCEPT ![r] = Append(@, Event("gather", active[r], FALSE))]
    /\ round' = [round EXCEPT ![r] = @ + 1]
    /\ epc' = [epc EXCEPT ![r] = "loop"]
    /\ UNCHANGED <<modelVars, phase, trainRest, eosFrame, visited, cur,
                   contributed, result, eexc>>

\* Variant in which the concatenation of no results is an empty tensor.
EosCatOfNothing(r) ==
    /\ prog = "eos" /\ epc[r] = "loop" /\ round[r] >= NumBatches
    /\ epc' = [epc EXCEPT ![r] = "auroc"]
    /\ UNCHANGED <<phase, eexc>>
    /\ UNCHANGED <<modelVars, trainRest, eosFrame, round, visited, elog, cur,
                   contributed, gathers, acc, result>>

\* After the loop: torch.cat of the accumulators; with nothing accumulated
\* torch.cat raises.
EosCat(r) ==
    /\ prog = "eos" /\ epc[r] = "loop" /\ round[r] >= NumBatches
    /\ IF acc[r] = <<>>
       THEN ERaise(r, "RuntimeError")
       ELSE /\ epc' = [epc EXCEPT ![r] = "auroc"]
            /\ UNCHANGED <<phase, eexc>>
    /\ UNCHANGED <<modelVars, trainRest, eosFrame, round, visited, elog, cur,
                   contributed, gathers, acc, result>>

\* sklearn's roc_auc_score raises ValueError when y_true holds a single class.
roc_auc_score(labels) == IF Cardinality(Range(labels)) < 2 THEN "ValueError" ELSE "value"

MetricKeys == {"N", "logits_ece", "acc", "unc_acc", "unc_auroc", "unc_ece"}

\* Variant of the metrics step that lets the ValueError of roc_auc_score escape.
EosMetricsUncaught(r) ==
    /\ prog = "eos" /\ epc[r] = "auroc"
    /\ LET q_labels == [j \in 1..Len(acc[r]) |-> correct[acc[r][j]]]
       IN IF roc_auc_score(q_labels) = "ValueError"
          THEN /\ ERaise(r, "ValueError")
               /\ UNCHANGED result
          ELSE /\ result' = [result EXCEPT ![r] =
                      [k \in MetricKeys |-> IF k = "N" THEN Len(acc[r]) ELSE "value"]]
               /\ epc' = [epc EXCEPT ![r] = "done"]
               /\ UNCHANGED <<phase, eexc>>
    /\ UNCHANGED <<modelVars, trainRest, eosFrame, round, visited, elog,
                   cur, contributed, gathers, acc>>

\* acc, logits_ece, unc_acc, unc_ece, then try: roc_auc_score except ValueError:
\* unc_auroc = nan; the metric dictionary is returned.
EosMetrics(r) ==
    /\ prog = "eos" /\ epc[r] = "auroc"
    /\ LET q_labels == [j \in 1..Len(acc[r]) |-> correct[acc[r][j]]]
           auroc == roc_auc_score(q_labels)
       IN result' = [result EXCEPT ![r] =
               [k \in MetricKeys |->
                   IF k = "N" THEN Len(acc[r])
                   ELSE IF k = "unc_auroc" /\ auroc = "ValueError" THEN "nan"
                   ELSE "value"]]
    /\ epc' = [epc EXCEPT ![r] = "done"]
    /\ UNCHANGED <<modelVars, phase, trainRest, eosFrame, round, visited, elog,
                   cur, contributed, gathers, acc, eexc>>

\* ------------------------------------------ evaluate (evaluate_gen.py)
genFrame == <<modelVars, trainRest, nproc, data_len, correct, prog, acc, unitVars>>

\* for inputs in tqdm(loader): labels = [label2char(l) ...]
GenFetch(r) ==
    /\ prog = "gen" /\ epc[r] = "loop" /\ round[r] < NumBatches
    /\ visited' = [visited EXCEPT ![r] = Append(@, round[r])]
    /\ cur' = [cur EXCEPT ![r] = [ex |-> Example(round[r], r), pred |-> -1, query |-> -1]]
    /\ gathers' = [gathers EXCEPT ![r] = 0]
    /\ elog' = [elog EXCEPT ![r] = <<>>]
    /\ epc' = [epc EXCEPT ![r] = "generate"]
    /\ UNCHANGED <<genFrame, phase, round, contributed, counts, result, eexc>>

\* outputs = model.generate(...); responses = tokenizer.batch_decode(...)
GenGenerate(r) ==
    /\ prog = "gen" /\ epc[r] = "generate"
    /\ \/ /\ elog' = [elog EXCEPT ![r] = Append(@, Event("generate", active[r], FALSE))]
          /\ cur' = [cur EXCEPT ![r].pred = cur[r].ex]
          /\ epc' = [epc EXCEPT ![r] = "gather_n"]
          /\ UNCHANGED <<phase, eexc>>
       \/ /\ ERaise(r, "RuntimeError")
          /\ UNCHANGED <<elog, cur>>
    /\ UNCHANGED <<genFrame, round, visited, contributed, gathers, counts, result>>

\* N += accelerator.gather(_N).sum(): the process hands in _N and blocks ...
GenGatherNEnter(r) ==
    /\ prog = "gen" /\ epc[r] = "gather_n"
    /\ contributed' = contributed \cup {<<"N", round[r], r>>}
    /\ epc' = [epc EXCEPT ![r] = "wait_n"]
    /\ UNCHANGED <<genFrame, phase, round, visited, elog, cur, gathers, counts,
                   result, eexc>>

\* ... until every process has handed in; _N is len(labels) of each batch.
GenGatherNExit(r) ==
    /\ prog = "gen" /\ epc[r] = "wait_n"
    /\ AllEntered("N", round[r])
    /\ counts' = [counts EXCEPT ![r].N = @ + Len(gather(round[r]))]
    /\ gathers' = [gathers EXCEPT ![r] = @ + 1]
    /\ elog' = [elog EXCEPT ![r] = Append(@, Event("gather", active[r], FALSE))]
    /\ epc' = [epc EXCEPT ![r] = "gather_acc"]
    /\ UNCHANGED <<genFrame, phase, round, visited, cur, contributed, result, eexc>>

\* N_acc += accelerator.gather(_N_acc).sum(): a second blocking collective.
GenGatherAccEnter(r) ==
    /\ prog = "gen" /\ epc[r] = "gather_acc"
    /\ contributed' = contributed \cup {<<"N_acc", round[r], r>>}
    /\ epc' = [epc EXCEPT ![r] = "wait_acc"]
    /\ UNCHANGED <<genFrame, phase, round, visited, elog, cur, gathers, counts,
                   result, eexc>>

\* Variant that counts every gathered response as a match.
GenGatherAccExitAll(r) ==
    /\ prog = "gen" /\ epc[r] = "wait_acc"
    /\ AllEntered("N_acc", round[r])
    /\ counts' = [counts EXCEPT ![r].N_acc = @ + nproc]
    /\ gathers' = [gathers EXCEPT ![r] = @ + 1]
    /\ elog' = [elog EXCEPT ![r] = Append(@, Event("gather", active[r], FALSE))]
    /\ round' = [round EXCEPT ![r] = @ + 1]
    /\ epc' = [epc EXCEPT ![r] = "loop"]
    /\ UNCHANGED <<genFrame, phase, visited, cur, contributed, result, eexc>>

\* _N_acc counts the responses of the batch that equal their label exactly.
GenGatherAccExit(r) ==
    /\ prog = "gen" /\ epc[r] = "wait_acc"
    /\ AllEntered("N_acc", round[r])
    /\ counts' = [counts EXCEPT ![r].N_acc =
                     @ + Cardinality({j \in 1..nproc : correct[gather(round[r])[j]]})]
    /\ gathers' = [gathers EXCEPT ![r] = @ + 1]
    /\ elog' = [elog EXCEPT ![r] = Append(@, Event("gather", active[r], FALSE))]
    /\ round' = [round EXCEPT ![r] = @ + 1]
    /\ epc' = [epc EXCEPT ![r] = "loop"]
    /\ UNCHANGED <<genFrame, phase, visited, cur, contributed, result, eexc>>

\* metrics = {"exact_match_acc": N_acc.item() / N.item(), "N": N.item()}
GenMetrics(r) ==
    /\ prog = "gen" /\ epc[r] = "loop" /\ round[r] >= NumBatches
    /\ IF counts[r].N = 0
       THEN /\ ERaise(r, "ZeroDivisionError")
            /\ UNCHANGED result
       ELSE /\ result' = [result EXCEPT ![r] =
                   [exact_match_acc |-> <<counts[r].N_acc, counts[r].N>>, N |-> counts[r].N]]
            /\ epc' = [epc EXCEPT ![r] = "done"]
            /\ UNCHANGED <<phase, eexc>>
    /\ UNCHANGED <<genFrame, round, visited, elog, cur, contributed, gathers, counts>>

\* --------------------------------------- the training loop around a step
\* compute_loss has returned: the optimizer step is taken, global_step advances
\* and, on the evaluation cadence, UncertaintyTuner.evaluate runs the evaluation
\* driver over the held-out splits, first of them now.
StepEnd(i) ==
    /\ tpc[i] = "returned"
    /\ global_step' = global_step + 1
    /\ tpc' = [tpc EXCEPT ![i] = "idle"]
    /\ loss' = [loss EXCEPT ![i] = NoLoss]
    /\ IF phase = "train" /\ args.eval_steps > 0 /\ (global_step + 1) % args.eval_steps = 0
       THEN /\ phase' = "eval"
            /\ todo' = splits
            /\ StartEvalPass
       ELSE UNCHANGED <<phase, todo, epc, round, visited, elog, cur, contributed,
                        gathers, acc, counts, result, eexc>>
    /\ UNCHANGED <<modelVars, ninv, tlog, texc, splits, nproc, data_len, correct, prog,
                   unitVars>>

\* evaluate: the metrics of one split are logged; the next split is evaluated,
\* or evaluate returns to the training loop.
EvaluateReturn ==
    /\ phase = "eval"
    /\ \A r \in Live : epc[r] = "done"
    /\ todo' = Tail(todo)
    /\ IF Tail(todo) # <<>>
       THEN /\ StartEvalPass
            /\ UNCHANGED phase
       ELSE /\ phase' = "train"
            /\ EndEvalPass
    /\ UNCHANGED <<modelVars, global_step, ninv, loss, tpc, tlog, texc, splits,
                   nproc, data_len, correct, prog, unitVars>>

\* The run ends between steps once the step budget is used up.
TrainEnd ==
    /\ phase = "train"
    /\ global_step >= MaxSteps
    /\ \A i \in 1..ninv : tpc[i] = "idle"
    /\ phase' = "finished"
    /\ UNCHANGED <<modelVars, trainRest, evalVars>>

\* ------------------------------------------------------- specifications
ArgsSet == [kl_type : KlTypes, kl_decay : KlDecays, scale_temp : BOOLEAN,
            ref_adapter_name : {REF}, eval_steps : 1..MaxEvalSteps]

TrainIdle ==
    /\ global_step = 0
    /\ tpc = [i \in Invs |-> "idle"]
    /\ loss = [i \in Invs |-> NoLoss]
    /\ tlog = [i \in Invs |-> <<>>]
    /\ texc = [i \in Invs |-> "none"]
    /\ todo = <<>>

\* None of the separately exercised functions is running, except the named one.
UnitIdle(except) ==
    /\ except # "kl" => kl_in = <<>> /\ kl_out = <<>>
    /\ except # "collator" =>
          tokenizer = <<>> /\ instances = <<>> /\ batch = <<>> /\ cpc = "off"
    /\ except # "records" =>
          /\ rcfg = <<>> /\ records = <<>> /\ rlog = <<>> /\ targets = <<>>
          /\ calls = <<>> /\ ref_labels = <<>> /\ rpc = "off"
    /\ except # "checkpoint" =>
          tuner = "none" /\ params = <<>> /\ prepared = 0 /\ ckpt = {}
    /\ except # "call" =>
          fn_call = <<>> /\ fn_pc = "off" /\ fn_log = <<>> /\ fn_ret = <<>>

\* One worker: a tuner is constructed and trains, evaluating periodically.
Init ==
    /\ args \in ArgsSet
    /\ is_peft = TRUE
    /\ peft_config \in {{DEFAULT, REF}, {DEFAULT, REF, QUERY}}
    /\ active = [r \in Ranks |-> DEFAULT]
    /\ phase = "new"
    /\ ninv = 1
    /\ splits \in {<<"val">>, <<"test">>, <<"val", "test">>}
    /\ TrainIdle
    /\ nproc = 1
    /\ data_len \in 0..MaxData
    /\ correct \in [0..(data_len - 1) -> BOOLEAN]
    /\ prog = "eos"
    /\ EvalIdle
    /\ UnitIdle("none")

TrainStep(i) ==
    \/ StepBegin(i)
    \/ PrimaryForward(i)
    \/ compute_unc_loss(i)
    \/ KlBranch(i)
    \/ KlSetRef(i)
    \/ KlRefForward(i)
    \/ KlRestore(i)
    \/ KlDivergence(i)
    \/ TotalLoss(i)
    \/ StepEnd(i)

evaluate_via_eos(r) ==
    \/ EosFetch(r)
    \/ EosPrimaryForward(r)
    \/ EosPredict(r)
    \/ EosBuildQuery(r)
    \/ EosQueryForward(r)
    \/ EosGatherEnter(r)
    \/ EosGatherExit(r)
    \/ EosCat(r)
    \/ EosMetrics(r)

evaluate_gen(r) ==
    \/ GenFetch(r)
    \/ GenGenerate(r)
    \/ GenGatherNEnter(r)
    \/ GenGatherNExit(r)
    \/ GenGatherAccEnter(r)
    \/ GenGatherAccExit(r)
    \/ GenMetrics(r)

Next ==
    \/ Construct
    \/ \E i \in Invs : TrainStep(i)
    \/ \E r \in Ranks : evaluate_via_eos(r)
    \/ EvaluateReturn
    \/ TrainEnd

Spec == Init /\ [][Next]_vars

\* Data-parallel evaluation: nproc processes run one evaluation routine over
\* one split, each on its own copy of the model, all in the same configuration.
InitEval ==
    /\ args = [kl_type |-> "jsd", kl_decay |-> 0, scale_temp |-> FALSE,
               ref_adapter_name |-> REF, eval_steps |-> 0]
    /\ prog \in {"eos", "gen"}
    /\ is_peft \in (IF prog = "eos" THEN BOOLEAN ELSE {FALSE})
    /\ peft_config \in (IF is_peft THEN {{DEFAULT}, {DEFAULT, QUERY}} ELSE {{}})
    /\ active \in {[r \in Ranks |-> a] : a \in (IF is_peft THEN peft_config ELSE {NOADAPTER})}
    /\ phase = "off"
    /\ ninv = 0
    /\ splits = <<>>
    /\ TrainIdle
    /\ nproc \in 1..MaxProcs
    /\ data_len \in 0..MaxData
    /\ correct \in [0..(data_len - 1) -> BOOLEAN]
    /\ epc = [r \in Ranks |-> IF r \in Live THEN "loop" ELSE "off"]
    /\ round = [r \in Ranks |-> 0]
    /\ visited = [r \in Ranks |-> <<>>]
    /\ elog = [r \in Ranks |-> <<>>]
    /\ cur = [r \in Ranks |-> NoBatch]
    /\ contributed = {}
    /\ gathers = [r \in Ranks |-> 0]
    /\ acc = [r \in Ranks |-> <<>>]
    /\ counts = [r \in Ranks |-> [N |-> 0, N_acc |-> 0]]
    /\ result = [r \in Ranks |-> NoResult]
    /\ eexc = [r \in Ranks |-> "none"]
    /\ UnitIdle("none")

EvalProc(r) == evaluate_via_eos(r) \/ evaluate_gen(r)

NextEval == \E r \in Ranks : EvalProc(r)

SpecEval == InitEval /\ [][NextEval]_vars

\* Every process runs its own sequential code: a process that can take a step
\* eventually takes one.
FairSpecEval == SpecEval /\ \A r \in Ranks : WF_vars(EvalProc(r))

\* Two invocations of the training step on one shared model object.
InitRace ==
    /\ args \in [kl_type : KlTypes, kl_decay : KlDecays, scale_temp : BOOLEAN,
                 ref_adapter_name : {REF}, eval_steps : {0}]
    /\ is_peft = TRUE
    /\ peft_config = {DEFAULT, REF}
    /\ active = [r \in Ranks |-> DEFAULT]
    /\ phase = "train"
    /\ ninv = MaxInv
    /\ splits = <<>>
    /\ TrainIdle
    /\ nproc = 1
    /\ data_len = 0
    /\ correct = <<>>
    /\ prog = "none"
    /\ EvalIdle
    /\ UnitIdle("none")

NextRace == \E i \in Invs : TrainStep(i)

SpecRace == InitRace /\ [][NextRace]_vars

\* ------------------------- compute_kl_loss: mask and reduction of the loss
\* The trainer and the evaluation processes stand still while a function is
\* exercised on its own.
Parked ==
    /\ args \in [kl_type : {"jsd"}, kl_decay : {0}, ref_adapter_name : {REF},
                 eval_steps : {0},
                 scale_temp : IF tuner = "UncertaintyTuner" THEN BOOLEAN ELSE {FALSE}]
    /\ is_peft = TRUE
    /\ peft_config = {DEFAULT, REF}
    /\ active = [r \in Ranks |-> DEFAULT]
    /\ phase = "off"
    /\ ninv = 0
    /\ splits = <<>>
    /\ TrainIdle
    /\ nproc = 1
    /\ data_len = 0
    /\ correct = <<>>
    /\ prog = "none"
    /\ EvalIdle

parkedVars == <<modelVars, trainVars, nproc, data_len, correct, prog, epc, round,
                visited, elog, cur, contributed, gathers, acc, counts, result, eexc>>

RECURSIVE Sum(_)
Sum(s) == IF s = <<>> THEN 0 ELSE Head(s) + Sum(Tail(s))

\* inputs.get("labels"): a label is the ignore sentinel or a token id;
\* kl_loss: one non-negative divergence per position of logits[..., :-1, :].
\* Batches of one and two examples, divergences 0, 1 and 2 are drawn.
KlInputs ==
    UNION {[labels : [1..B -> [1..T -> {IGNORE_LABEL, ANSWER_TOKEN}]],
            kl_loss : [1..B -> [1..(T - 1) -> {0, 1, 2}]]] :
           B \in {1, 2}, T \in 1..MaxSeq}

\* Variant of the shift that drops the last label instead of the first.
ShiftLabelsLast(row) == SubSeq(row, 1, Len(row) - 1)

\* labels = inputs.get("labels")[..., 1:]
ShiftLabels(row) == Tail(row)

\* loss_mask = labels != IGNORE_LABEL, on the shifted labels
KlMask ==
    /\ kl_in # <<>> /\ kl_out = <<>>
    /\ kl_out' = [loss_mask |->
                     [b \in DOMAIN kl_in.labels |->
                        [t \in DOMAIN ShiftLabels(kl_in.labels[b]) |->
                            IF ShiftLabels(kl_in.labels[b])[t] # IGNORE_LABEL THEN 1 ELSE 0]]]
    /\ UNCHANGED <<parkedVars, fnVars, kl_in, collVars, recVars, ckptVars>>

\* loss = (kl_loss * loss_mask).sum(dim=-1).mean(dim=0); the mean is kept as
\* the sum over the batch and the batch size it is divided by.
KlReduce ==
    /\ kl_out # <<>> /\ DOMAIN kl_out = {"loss_mask"}
    /\ LET B == Len(kl_in.labels)
           masked == [b \in 1..B |->
                        [t \in DOMAIN kl_in.kl_loss[b] |->
                            kl_in.kl_loss[b][t] * kl_out.loss_mask[b][t]]]
           sums == [b \in 1..B |-> Sum(masked[b])]
       IN kl_out' = [loss_mask |-> kl_out.loss_mask, per_example |-> sums,
                     loss |-> [sum |-> Sum(sums), n |-> B]]
    /\ UNCHANGED <<parkedVars, fnVars, kl_in, collVars, recVars, ckptVars>>

InitKl ==
    /\ UnitIdle("kl")
    /\ Parked
    /\ kl_in \in KlInputs
    /\ kl_out = <<>>

NextKl == KlMask \/ KlReduce

SpecKl == InitKl /\ [][NextKl]_vars

\* ------------------------------------------- LabeledStringDataCollator
Min(a, b) == IF a < b THEN a ELSE b

Max(a, b) == IF a > b THEN a ELSE b

\* A record as the collator sees it: whether it has the target field, and the
\* token counts of its text before the target and of the target (0 for "").
Instances ==
    [has_target : {FALSE}, prefix : 1..MaxPrefix, target : {0}]
        \cup [has_target : {TRUE}, prefix : 1..MaxPrefix, target : 0..MaxTarget]

\* The tokens of str(LMText.from_(instance)), the target coming last in the
\* string, truncated on the right at max_length; without_target drops the
\* target field first.
Tokens(inst, with_target) ==
    LET text == [j \in 1..inst.prefix |-> PROMPT_TOKEN]
        full == IF with_target /\ inst.has_target
                THEN text \o [j \in 1..inst.target |-> ANSWER_TOKEN]
                ELSE text
    IN SubSeq(full, 1, Min(Len(full), tokenizer.model_max_length))

\* self.tokenizer(strings, padding=True, truncation=True, return_length=True):
\* every row padded to the longest of the batch on the tokenizer's padding
\* side; "length" is the unpadded length of each row.
Tokenizer(with_target) ==
    LET rows == [i \in DOMAIN instances |-> Tokens(instances[i], with_target)]
        L == CHOOSE n \in {Len(rows[i]) : i \in DOMAIN rows} :
                 \A i \in DOMAIN rows : Len(rows[i]) <= n
        padded(row, fill) ==
            IF tokenizer.padding_side = "right"
            THEN row \o [j \in 1..(L - Len(row)) |-> fill]
            ELSE [j \in 1..(L - Len(row)) |-> fill] \o row
    IN [input_ids |-> [i \in DOMAIN rows |-> padded(rows[i], PAD_TOKEN)],
        attention_mask |-> [i \in DOMAIN rows |->
                               padded([j \in 1..Len(rows[i]) |-> 1], 0)],
        length |-> [i \in DOMAIN rows |-> Len(rows[i])]]

\* inputs = self.tokenizer(...); input_lengths = inputs.pop("length")
CollatorTokenize ==
    /\ cpc = "start"
    /\ batch' = [k \in {"input_ids", "attention_mask"} |-> Tokenizer(TRUE)[k]]
    /\ cpc' = "tokenized"
    /\ UNCHANGED <<parkedVars, fnVars, klVars, tokenizer, instances, recVars, ckptVars>>

\* Python's row[:stop] with stop = -l on a row of n entries: the number of
\* leading entries the slice covers.
SliceStop(n, l) == IF -l < 0 THEN Max(n - l, 0) ELSE Min(-l, n)

\* labels[i, :-l] = IGNORE_LABEL
MaskRow(row, l) ==
    [j \in 1..Len(row) |-> IF j <= SliceStop(Len(row), l) THEN IGNORE_LABEL ELSE row[j]]

\* Variant that clones the target-less tokenization instead of input_ids.
LabelsOfUnInputs ==
    [i \in DOMAIN instances |->
        MaskRow(Tokenizer(FALSE).input_ids[i],
                Tokenizer(TRUE).length[i] - Tokenizer(FALSE).length[i])]

\* The labels tensor of lines 35-53: a clone of input_ids, each row masked by
\* the difference of its lengths with and without the target.
Labels ==
    [i \in DOMAIN instances |->
        MaskRow(batch.input_ids[i],
                Tokenizer(TRUE).length[i] - Tokenizer(FALSE).length[i])]

\* Variant in which labels is input_ids itself, not a clone of it.
CollatorLabelsAliased ==
    /\ cpc = "tokenized"
    /\ IF instances[1].has_target
       THEN batch' = [input_ids |-> Labels, attention_mask |-> batch.attention_mask,
                      labels |-> Labels]
       ELSE UNCHANGED batch
    /\ cpc' = "returned"
    /\ UNCHANGED <<parkedVars, fnVars, klVars, tokenizer, instances, recVars, ckptVars>>

\* if self.target_name in instances[0]: ... inputs["labels"] = labels;
\* return inputs
CollatorLabels ==
    /\ cpc = "tokenized"
    /\ IF instances[1].has_target
       THEN batch' = [input_ids |-> batch.input_ids,
                      attention_mask |-> batch.attention_mask, labels |-> Labels]
       ELSE UNCHANGED batch
    /\ cpc' = "returned"
    /\ UNCHANGED <<parkedVars, fnVars, klVars, tokenizer, instances, recVars, ckptVars>>

InitCollator ==
    /\ UnitIdle("collator")
    /\ Parked
    /\ tokenizer \in [padding_side : {"right", "left"}, model_max_length : 2..MaxSeq]
    /\ instances \in UNION {[1..B -> Instances] : B \in {1, 2}}
    /\ batch = <<>>
    /\ cpc = "start"

NextCollator == CollatorTokenize \/ CollatorLabels

SpecCollator == InitCollator /\ [][NextCollator]_vars

\* ------------------------- Text Records: from the formatter to the model
\* string.ascii_lowercase[k] for an answer index.
Letter(k) == <<"a", "b", "c", "d", "e", "f">>[k + 1]

\* The few-shot preamble: "" for kshot <= 0.
FewShot == IF rcfg.kshot <= 0 THEN "" ELSE "fewshot"

Batch == DOMAIN rcfg.labels

\* hellaswag.__format_sample: LMText(context=, target_prompt=, target=); the
\* record's prompt has its default, the empty preamble.
HellaswagFormatSample ==
    /\ rpc = "format" /\ rcfg.dataset = "hellaswag"
    /\ records' = [i \in Batch |->
          IF rcfg.style = "choice"
          THEN [prompt |-> "", context |-> "Context: Choices:",
                target_prompt |-> "Answer:", target |-> Letter(rcfg.labels[i])]
          ELSE [prompt |-> "", context |-> "Complete the ending",
                target_prompt |-> "Ending:",
                target |-> IF rcfg.labels[i] = 0 THEN "ending0" ELSE "ending1"]]
    /\ rpc' = "set_prompt"
    /\ UNCHANGED <<parkedVars, fnVars, klVars, collVars, ckptVars, rcfg, rlog, targets, calls, ref_labels>>

\* hellaswag.__format_sample_with_prompt: sample.prompt = prompt, on the record
\* __format_sample returned; then to_pydict().
HellaswagSetPrompt ==
    /\ rpc = "set_prompt"
    /\ records' = [i \in Batch |->
          [records[i] EXCEPT !.prompt = IF FewShot = "" THEN "" ELSE FewShot \o "\n\n"]]
    /\ rlog' = rlog \o [i \in Batch |-> [record |-> i, field |-> "prompt", op |-> "assign"]]
    /\ rpc' = "loaded"
    /\ UNCHANGED <<parkedVars, fnVars, klVars, collVars, ckptVars, rcfg, targets, calls, ref_labels>>

\* copa.format_sample: one LMText(context=, target_prompt=, target=, output=,
\* query_label=) call; output and query_label are None without
\* with_query_label; to_pydict() keeps the fields that are set.
CopaFormatSample ==
    /\ rpc = "format" /\ rcfg.dataset = "copa"
    /\ \E coin \in [Batch -> {0, 1}] :
          records' = [i \in Batch |->
             LET answer(k) == IF rcfg.style = "choice" THEN Letter(k)
                              ELSE IF k = 0 THEN "1" ELSE "2"
                 base == [context |-> IF rcfg.style = "choice" THEN "Premise: Choices:"
                                      ELSE "Read the following premise",
                          target_prompt |-> "Answer:",
                          target |-> answer(rcfg.labels[i])]
             IN IF rcfg.with_query_label
                THEN [f \in DOMAIN base \cup {"output", "query_label"} |->
                        IF f = "output"
                        THEN answer(IF coin[i] = 1 THEN rcfg.labels[i] ELSE 1 - rcfg.labels[i])
                        ELSE IF f = "query_label" THEN (IF coin[i] = 1 THEN "1" ELSE "0")
                        ELSE base[f]]
                ELSE base]
    /\ rpc' = "map_prompt"
    /\ UNCHANGED <<parkedVars, fnVars, klVars, collVars, ckptVars, rcfg, rlog, targets, calls, ref_labels>>

\* get_copa: ds.map(lambda: {"prompt": format_sample_prompt(...)}) builds the
\* rows of a new dataset, each the formatted row plus its prompt column.
CopaMapPrompt ==
    /\ rpc = "map_prompt"
    /\ records' = [i \in Batch |->
          [f \in DOMAIN records[i] \cup {"prompt"} |->
              IF f = "prompt" THEN FewShot ELSE records[i][f]]]
    /\ rpc' = "loaded"
    /\ UNCHANGED <<parkedVars, fnVars, klVars, collVars, ckptVars, rcfg, rlog, targets, calls, ref_labels>>

\* Variant that reads the targets and leaves them in the records.
PeekTargets ==
    /\ rpc = "loaded"
    /\ targets' = [i \in Batch |-> records[i].target]
    /\ rpc' = IF rcfg.routine = "cc" THEN "context_free" ELSE "primary"
    /\ UNCHANGED <<parkedVars, fnVars, klVars, collVars, ckptVars, rcfg, records, rlog, calls, ref_labels>>

\* eos.py, each routine: inputs = [dict(zip(...)) ...];
\* targets = [inp.pop("target") for inp in inputs]
PopTargets ==
    /\ rpc = "loaded"
    /\ targets' = [i \in Batch |-> records[i].target]
    /\ records' = [i \in Batch |->
                      [f \in DOMAIN records[i] \ {"target"} |-> records[i][f]]]
    /\ rlog' = rlog \o [i \in Batch |-> [record |-> i, field |-> "target", op |-> "pop"]]
    /\ rpc' = IF rcfg.routine = "cc" THEN "context_free" ELSE "primary"
    /\ UNCHANGED <<parkedVars, fnVars, klVars, collVars, ckptVars, rcfg, calls, ref_labels>>

\* model(**collate_fn(insts)): the records collated, and the keys of the
\* collated batch; the collator adds labels iff its first record has a target.
Call(kind, insts) ==
    [kind |-> kind, instances |-> insts,
     keys |-> {"input_ids", "attention_mask"} \cup
              (IF "target" \in DOMAIN insts[1] THEN {"labels"} ELSE {})]

\* evaluate_contextual_calibration_via_eos: for each of the three context-free
\* strings, nc_inputs = [{**inp, "context": cf_str, "prompt": ""} ...] (new
\* dictionaries) are collated and passed to the model.
ContextFreeForward ==
    /\ rpc = "context_free"
    /\ calls' = calls \o
          [k \in 1..3 |->
              Call("context_free",
                   [i \in Batch |->
                       [f \in DOMAIN records[i] \cup {"context", "prompt"} |->
                           IF f = "context"
                           THEN <<"Question: N/A", "Question: ", "Question: <pad>">>[k]
                           ELSE IF f = "prompt" THEN "" ELSE records[i][f]]])]
    /\ rpc' = "primary"
    /\ UNCHANGED <<parkedVars, fnVars, klVars, collVars, ckptVars, rcfg, records, rlog, targets, ref_labels>>

\* generation_inputs = collate_fn(inputs); model.set_adapter("default");
\* generation_outputs = model(**generation_inputs)
PrimaryForwardCall ==
    /\ rpc = "primary"
    /\ calls' = Append(calls, Call("primary", records))
    /\ IF is_peft THEN set_adapter(0, DEFAULT) ELSE UNCHANGED active
    /\ rpc' = "labels"
    /\ UNCHANGED <<args, is_peft, peft_config, trainVars, nproc, data_len, correct, prog,
                   epc, round, visited, elog, cur, contributed, gathers, acc, counts,
                   result, eexc, klVars, collVars, ckptVars, fnVars, rcfg, records, rlog,
                   targets, ref_labels>>

\* labels = torch.tensor(tokenizer(targets).get("input_ids"))[:, 1]: the first
\* token of each target that was taken out.
ReferenceLabels ==
    /\ rpc = "labels"
    /\ ref_labels' = [i \in Batch |-> <<"token of", targets[i]>>]
    /\ rpc' = "done"
    /\ UNCHANGED <<parkedVars, fnVars, klVars, collVars, ckptVars, rcfg, records, rlog, targets, calls>>

InitRecords ==
    /\ UnitIdle("records")
    /\ Parked
    /\ rcfg \in UNION {[dataset : {"hellaswag"}, style : {"choice", "oe"}, kshot : {0, 1},
                          with_query_label : {FALSE}, routine : {"eos", "cc", "cand"},
                          labels : [1..n -> {0, 1}]]
                         \cup
                         [dataset : {"copa"}, style : {"choice", "oe"}, kshot : {0, 1},
                          with_query_label : BOOLEAN, routine : {"eos", "cc", "cand"},
                          labels : [1..n -> {0, 1}]] : n \in 1..2}
    /\ records = <<>>
    /\ rlog = <<>>
    /\ targets = <<>>
    /\ calls = <<>>
    /\ ref_labels = <<>>
    /\ rpc = "format"

NextRecords ==
    \/ HellaswagFormatSample
    \/ HellaswagSetPrompt
    \/ CopaFormatSample
    \/ CopaMapPrompt
    \/ PopTargets
    \/ ContextFreeForward
    \/ PrimaryForwardCall
    \/ ReferenceLabels

SpecRecords == InitRecords /\ [][NextRecords]_vars

\* ------------------------------ temperature scaling and checkpoints
\* A parameter name is the sequence of its dotted parts; "x in name" for a
\* part x is the substring test of the code.
HasPart(name, part) == \E j \in DOMAIN name : name[j] = part

ParamNames ==
    [base |-> <<"base_model", "layers", "weight">>,
     default |-> <<"base_model", "layers", "lora_A", DEFAULT, "weight">>,
     ref |-> <<"base_model", "layers", "lora_A", REF, "weight">>,
     query |-> <<"base_model", "layers", "lora_A", QUERY, "weight">>,
     temperature |-> <<"base_model", "model", "temperature">>]

\* Variant that makes the temperature trainable and freezes nothing.
prepare_unfrozen ==
    /\ tuner # "none" /\ ckpt = {} /\ prepared < 2
    /\ params' = [n \in DOMAIN params |-> HasPart(n, "temperature") \/ params[n]]
    /\ prepared' = prepared + 1
    /\ UNCHANGED <<parkedVars, fnVars, klVars, collVars, recVars, tuner, ckpt>>

\* prepare_model_for_temperature_scaling(model)
prepare_model_for_temperature_scaling ==
    /\ tuner # "none" /\ ckpt = {} /\ prepared < 2
    /\ params' = [n \in DOMAIN params |->
                     IF HasPart(n, "temperature") THEN TRUE
                     ELSE IF params[n] THEN FALSE ELSE params[n]]
    /\ prepared' = prepared + 1
    /\ UNCHANGED <<parkedVars, fnVars, klVars, collVars, recVars, tuner, ckpt>>

\* Variant that writes every adapter of the model.
save_all_adapters(selected_adapters) ==
    {n \in DOMAIN params : HasPart(n, "lora_A")}

\* PeftModel.save_pretrained(output_dir, selected_adapters=...): the keys of the
\* adapter weights file, the LoRA parameters of the selected adapters.
save_pretrained(selected_adapters) ==
    {n \in DOMAIN params :
        HasPart(n, "lora_A") /\ \E a \in selected_adapters : HasPart(n, a)}

\* save_temperature_scaled_model(model, output_dir): the files it writes.
save_temperature_scaled_model ==
    LET state_dict == {k \in DOMAIN params : HasPart(k, "temperature")}
    IN IF state_dict = {} THEN {}
       ELSE {[file |-> "temperature_adapter.bin", keys |-> state_dict]}

\* UncertaintyTuner._save and FineTuner._save
Save ==
    /\ tuner # "none" /\ ckpt = {}
    /\ ckpt' = {[file |-> "adapter_model", keys |-> save_pretrained({DEFAULT})]}
                \cup (IF tuner = "UncertaintyTuner" /\ args.scale_temp
                      THEN save_temperature_scaled_model ELSE {})
                \cup {[file |-> "tokenizer", keys |-> {}],
                      [file |-> "training_args.bin", keys |-> {}]}
    /\ UNCHANGED <<parkedVars, fnVars, klVars, collVars, recVars, tuner, params, prepared>>

InitCkpt ==
    /\ UnitIdle("checkpoint")
    /\ tuner \in {"UncertaintyTuner", "FineTuner"}
    /\ Parked
    /\ \E extra \in SUBSET {"ref", "query", "temperature"} :
          params \in [{ParamNames[k] : k \in {"base", "default"} \cup extra} -> BOOLEAN]
    /\ prepared = 0
    /\ ckpt = {}

NextCkpt == prepare_model_for_temperature_scaling \/ Save

SpecCkpt == InitCkpt /\ [][NextCkpt]_vars

\* ------------- formatters, constructors and drivers, each exercised as a call
\* How a call ends: with a returned value or with a raised exception.
Returned(v) == [kind |-> "returned", value |-> v]

Raised(e) == [kind |-> "raised", exc |-> e]

\* answer_map[k]: the text of answer choice k of a sample.
ChoiceText(k) == <<"text0", "text1", "text2", "text3", "text4", "text5">>[k + 1]

\* A sample of a hub dataset: its number of answer choices and the index of
\* the right one.
Samples(lo, hi) == UNION {[n : {n}, label : 0..(n - 1)] : n \in lo..hi}

\* The rows of one split of a hub dataset.
Rows(S) == UNION {[1..k -> S] : k \in 0..MaxRows}

\* Variant that draws the output among all the choices.
OutputIdxAny(n, target_idx, query_label) ==
    IF query_label = 1 THEN {target_idx}
    ELSE IF query_label = 0 THEN 0..(n - 1)
    ELSE {-1}

\* format_sample: output_idx is target_idx for query_label 1, one of the other
\* indices (rng.choice) for query_label 0, None (-1 here) without a query label.
OutputIdx(n, target_idx, query_label) ==
    IF query_label = 1 THEN {target_idx}
    ELSE IF query_label = 0 THEN (0..(n - 1)) \ {target_idx}
    ELSE {-1}

\* format_sample of copa and of truthful_qa (the two differ in the texts):
\* the LMText built for one sample, or NotImplementedError.  query_label and
\* output_idx are the draws of the seeded generator, -1 for None.
format_sample(ds, sample, format, query_label, output_idx) ==
    LET answer(k) ==
            IF k = -1 THEN "None"
            ELSE IF format = "choice" THEN Letter(k)
            ELSE IF ds = "copa" THEN <<"1", "2">>[k + 1]
            ELSE ChoiceText(k)
    IN IF format \in {"choice", "oe"}
       THEN Returned([context |-> IF format = "choice" THEN "Choices:" ELSE "Question:",
                      target_prompt |-> "\nAnswer:",
                      target |-> answer(sample.label),
                      output |-> answer(output_idx),
                      query_label |-> <<"None", "0", "1">>[query_label + 2]])
       ELSE Raised("NotImplementedError")

\* format_sample_prompt of copa and of truthful_qa: "" without k-shot, before
\* the format is looked at.
format_sample_prompt(format, kshot) ==
    IF kshot = 0 THEN Returned("")
    ELSE IF format = "choice" THEN Returned("questions with multiple-choice answers")
    ELSE IF format = "oe" THEN Returned("questions with answers")
    ELSE Raised("NotImplementedError")

\* Variant that formats the choice prompt whatever the style.
boolq_format_any_style(sample, style, with_answer) ==
    Returned("Passage: Question: Choices: Answer: "
             \o (IF with_answer THEN Letter(sample.label) \o "</s>\n" ELSE ""))

\* boolq.__format_prompt
boolq_format_prompt(sample, style, with_answer) ==
    IF style = "choice"
    THEN Returned("Passage: Question: Choices: Answer: "
                  \o (IF with_answer THEN Letter(sample.label) \o "</s>\n" ELSE ""))
    ELSE Raised("NotImplementedError")

\* hellaswag.__format_sample
hellaswag_format_sample(sample, style) ==
    IF style = "choice"
    THEN Returned([context |-> "Context: Choices:", target_prompt |-> "\nAnswer:",
                   target |-> Letter(sample.label)])
    ELSE IF style = "oe"
    THEN Returned([context |-> "Complete the ending", target_prompt |-> "\nEnding:",
                   target |-> ChoiceText(sample.label)])
    ELSE Raised("NotImplementedError")

PromptStyles == {"choice", "oe", "other"}

\* The calls of the formatters.
FormatterCalls ==
    [fn : {"copa.format_sample"}, sample : Samples(2, 2), format : PromptStyles,
     with_query_label : BOOLEAN]
    \cup [fn : {"truthful_qa.format_sample"}, sample : Samples(2, MaxChoices),
          format : PromptStyles, with_query_label : BOOLEAN]
    \cup [fn : {"copa.format_sample_prompt", "truthful_qa.format_sample_prompt"},
          format : PromptStyles, kshot : {0, 1}]
    \cup [fn : {"boolq.__format_prompt"}, sample : Samples(2, 2), style : PromptStyles,
          with_answer : BOOLEAN]
    \cup [fn : {"hellaswag.__format_sample"}, sample : Samples(4, 4), style : PromptStyles]

\* One call of a formatter, from its arguments to its outcome.
CallFormatter ==
    /\ fn_pc = "call" /\ fn_call \in FormatterCalls
    /\ \E coin \in {0, 1}, pick \in -1..(MaxChoices - 1) :
          LET c == fn_call
              ql == IF "with_query_label" \in DOMAIN c /\ c.with_query_label
                    THEN coin ELSE -1
          IN /\ "with_query_label" \in DOMAIN c =>
                   pick \in OutputIdx(c.sample.n, c.sample.label, ql)
             /\ "with_query_label" \notin DOMAIN c => coin = 0 /\ pick = -1
             /\ fn_ret' =
                   CASE c.fn = "copa.format_sample" ->
                           format_sample("copa", c.sample, c.format, ql, pick)
                     [] c.fn = "truthful_qa.format_sample" ->
                           format_sample("truthful_qa", c.sample, c.format, ql, pick)
                     [] c.fn \in {"copa.format_sample_prompt",
                                  "truthful_qa.format_sample_prompt"} ->
                           format_sample_prompt(c.format, c.kshot)
                     [] c.fn = "boolq.__format_prompt" ->
                           boolq_format_prompt(c.sample, c.style, c.with_answer)
                     [] c.fn = "hellaswag.__format_sample" ->
                           hellaswag_format_sample(c.sample, c.style)
    /\ fn_pc' = "done"
    /\ UNCHANGED <<parkedVars, klVars, collVars, recVars, ckptVars, fn_call, fn_log>>

\* Variant in which a missing split is an empty dataset.
EmptySplit == [kind |-> "Dataset", rows |-> <<>>]

\* A split a constructor returns: None, or a dataset with its rows.
NoneSplit == [kind |-> "None", rows |-> <<>>]

Dataset(rows) == [kind |-> "Dataset", rows |-> rows]

\* LMText.to_pydict(): the fields of the record that are set.
to_pydict(rec) == [f \in {g \in DOMAIN rec : rec[g] # "None"} |-> rec[f]]

\* The first failure among the outcomes of mapping a function over the rows
\* of a split, and else the mapped rows.
MapRows(out) ==
    IF \E i \in DOMAIN out : out[i].kind = "raised"
    THEN out[CHOOSE i \in DOMAIN out :
                /\ out[i].kind = "raised"
                /\ \A j \in DOMAIN out : out[j].kind = "raised" => i <= j]
    ELSE Returned([i \in DOMAIN out |-> out[i].value])

\* get_boolq: both splits mapped to source and target and tokenized; the
\* few-shot preamble is "" for kshot <= 0, else formatted examples.
get_boolq ==
    /\ fn_pc = "call" /\ fn_call.fn = "get_boolq"
    /\ LET c == fn_call
           row(x, k) ==
               LET few == IF k <= 0 THEN Returned("")
                          ELSE boolq_format_prompt(x, c.prompt_style, TRUE)
                   src == boolq_format_prompt(x, c.prompt_style, FALSE)
               IN IF few.kind = "raised" THEN few
                  ELSE IF src.kind = "raised" THEN src
                  ELSE Returned([tokens_of |-> <<few.value \o src.value,
                                                 Letter(x.label) \o "</s>">>])
           train == MapRows([i \in DOMAIN c.hub.train |-> row(c.hub.train[i], 0)])
           val == MapRows([i \in DOMAIN c.hub.validation |->
                              row(c.hub.validation[i], c.eval_kshot)])
       IN fn_ret' = IF train.kind = "raised" THEN train
                    ELSE IF val.kind = "raised" THEN val
                    ELSE Returned(<<Dataset(train.value), Dataset(val.value), NoneSplit>>)
    /\ fn_pc' = "done"
    /\ UNCHANGED <<parkedVars, klVars, collVars, recVars, ckptVars, fn_call, fn_log>>

\* get_hellaswag: both splits mapped by __format_sample_with_prompt and
\* to_pydict(); nothing is returned for the test split.
get_hellaswag ==
    /\ fn_pc = "call" /\ fn_call.fn = "get_hellaswag"
    /\ LET c == fn_call
           row(x, k) ==
               LET few == IF k <= 0 THEN Returned("")
                          ELSE hellaswag_format_sample(x, c.prompt_style)
                   smp == hellaswag_format_sample(x, c.prompt_style)
               IN IF few.kind = "raised" THEN few
                  ELSE IF smp.kind = "raised" THEN smp
                  ELSE Returned([f \in DOMAIN smp.value \cup {"prompt"} |->
                                   IF f = "prompt"
                                   THEN (IF k <= 0 THEN "" ELSE "contexts (with completions)\n\n")
                                   ELSE smp.value[f]])
           train == MapRows([i \in DOMAIN c.hub.train |-> row(c.hub.train[i], c.train_kshot)])
           val == MapRows([i \in DOMAIN c.hub.validation |->
                              row(c.hub.validation[i], c.eval_kshot)])
       IN fn_ret' = IF train.kind = "raised" THEN train
                    ELSE IF val.kind = "raised" THEN val
                    ELSE Returned(<<Dataset(train.value), Dataset(val.value), NoneSplit>>)
    /\ fn_pc' = "done"
    /\ UNCHANGED <<parkedVars, klVars, collVars, recVars, ckptVars, fn_call, fn_log>>

\* get_copa and get_truthful_qa, after format = PromptFormat(prompt_style):
\* every split the loaded dataset has (copa: without "test", which is popped)
\* is mapped by format_sample and given its prompt column; the three splits are
\* then popped with the default None.
MapSplits(ds, c, kept, rnd) ==
    LET ql(s, i) == IF c.with_query_label THEN rnd[s][i][1] ELSE -1
        row(s, i) ==
            LET smp == format_sample(ds, c.hub[s][i], c.prompt_style, ql(s, i),
                                     IF c.with_query_label THEN rnd[s][i][2] ELSE -1)
                pr == format_sample_prompt(c.prompt_style,
                                           IF s = "train" THEN c.train_kshot ELSE c.eval_kshot)
            IN IF smp.kind = "raised" THEN smp
               ELSE IF pr.kind = "raised" THEN pr
               ELSE Returned([f \in DOMAIN to_pydict(smp.value) \cup {"prompt"} |->
                                IF f = "prompt" THEN pr.value ELSE smp.value[f]])
        split(s) == MapRows([i \in DOMAIN c.hub[s] |-> row(s, i)])
        pop(s) == IF s \in kept THEN Dataset(split(s).value) ELSE NoneSplit
    IN IF \E s \in kept : split(s).kind = "raised"
       THEN split(CHOOSE s \in kept : split(s).kind = "raised")
       ELSE Returned(<<pop("train"), pop("validation"), pop("test")>>)

\* The draws of the seeded generators for the rows of the splits: the query
\* label and the output index of each row.
Draws(c) ==
    {rnd \in [DOMAIN c.hub -> [1..MaxRows -> {0, 1} \X (0..(MaxChoices - 1))]] :
        \A s \in DOMAIN c.hub : \A i \in 1..MaxRows :
            IF c.with_query_label /\ i \in DOMAIN c.hub[s]
            THEN rnd[s][i][2] \in OutputIdx(c.hub[s][i].n, c.hub[s][i].label, rnd[s][i][1])
            ELSE rnd[s][i] = <<0, 0>>}

get_copa ==
    /\ fn_pc = "call" /\ fn_call.fn = "get_copa"
    /\ \E rnd \in Draws(fn_call) :
          fn_ret' = MapSplits("copa", fn_call, DOMAIN fn_call.hub \ {"test"}, rnd)
    /\ fn_pc' = "done"
    /\ UNCHANGED <<parkedVars, klVars, collVars, recVars, ckptVars, fn_call, fn_log>>

get_truthful_qa ==
    /\ fn_pc = "call" /\ fn_call.fn = "get_truthful_qa"
    /\ \E rnd \in Draws(fn_call) :
          fn_ret' = MapSplits("truthful_qa", fn_call, DOMAIN fn_call.hub, rnd)
    /\ fn_pc' = "done"
    /\ UNCHANGED <<parkedVars, klVars, collVars, recVars, ckptVars, fn_call, fn_log>>

\* The calls of the constructors, with the splits of the dataset that
\* load_dataset yields: boolq and hellaswag are read for train and validation,
\* copa has all three splits, truthful_qa (multiple_choice) only validation.
\* get_copa and get_truthful_qa first turn prompt_style into a PromptFormat.
ConstructorCalls ==
    [fn : {"get_boolq"}, prompt_style : PromptStyles, eval_kshot : {0, 1},
     hub : [{"train", "validation"} -> Rows(Samples(2, 2))]]
    \cup [fn : {"get_hellaswag"}, prompt_style : PromptStyles,
          train_kshot : {0}, eval_kshot : {0, 1},
          hub : [{"train", "validation"} -> Rows(Samples(4, 4))]]
    \cup [fn : {"get_copa"}, prompt_style : {"choice", "oe"}, with_query_label : BOOLEAN,
          train_kshot : {0}, eval_kshot : {0, 1},
          hub : [{"train", "validation", "test"} -> Rows(Samples(2, 2))]]
    \cup [fn : {"get_truthful_qa"}, prompt_style : {"choice", "oe"},
          with_query_label : BOOLEAN, train_kshot : {0}, eval_kshot : {0, 1},
          hub : [{"validation"} -> Rows(Samples(2, MaxChoices))]]

\* ---- combined datasets (combined.py)
\* Names of registered datasets, as the sequences of their characters.
RegisteredNames ==
    {<<"b", "o", "o", "l", "q">>,
     <<"c", "o", "p", "a">>,
     <<"h", "e", "l", "l", "a", "s", "w", "a", "g">>,
     <<"t", "r", "u", "t", "h", "f", "u", "l", "_", "q", "a">>,
     <<"a", "l", "l", "_", "2", "0", "k", "_", "u", "n", "i", "f", "o", "r", "m">>,
     <<"s", "u", "b", "_", "2", "0", "0", "k">>,
     <<"m", "m", "l", "u">>,
     <<"g", "s", "m", "8", "k">>}

\* s in x, for strings.
Contains(x, s) ==
    \E i \in 1..(Len(x) - Len(s) + 1) : SubSeq(x, i, i + Len(s) - 1) = s

\* a < b in the order of Python strings (by code point, a prefix first).
StrLt(a, b) ==
    LET Ascii == <<"0", "1", "2", "3", "4", "5", "6", "7", "8", "9", "_", "a", "b", "c",
                   "d", "e", "f", "g", "h", "i", "j", "k", "l", "m", "n", "o", "p", "q",
                   "r", "s", "t", "u", "v", "w", "x", "y", "z">>
        ord(c) == CHOOSE k \in DOMAIN Ascii : Ascii[k] = c
    IN \E i \in 1..(Len(b)) :
          /\ \A j \in 1..(i - 1) : j <= Len(a) /\ a[j] = b[j]
          /\ (i > Len(a) \/ (i <= Len(a) /\ ord(a[i]) < ord(b[i])))

\* sorted(...) of distinct strings.
sorted(S) ==
    [k \in 1..Cardinality(S) |->
        CHOOSE x \in S : Cardinality({y \in S : StrLt(y, x)}) = k - 1]

\* Variant that skips no dataset for the open-ended style.
SkippedForNoStyle(prompt_style) == {}

\* The substrings whose datasets are skipped for a prompt style.
SkippedForStyle(prompt_style) ==
    IF prompt_style = "oe" THEN {<<"h", "e", "l", "l", "a", "s", "w", "a", "g">>} ELSE {}

\* get_all_datasets_list.  dataset_str is given as its parts between colons;
\* registered is list_datasets() and tasks the "tasks" attribute of the
\* registry.  The names of the training list are character sequences.
get_all_datasets_list(dataset_str, prompt_style, registered, tasks) ==
    LET dataset == dataset_str[1]
        sub_dataset == Tail(dataset_str)
        skipped == {<<"a", "l", "l">>, <<"s", "u", "b">>, <<"m", "m", "l", "u">>,
                    <<"b", "b", "m", "c">>, <<"g", "s", "m", "8", "k">>,
                    <<"o", "f", "f", "l", "i", "n", "e">>,
                    <<"m", "o", "d", "i", "s", "t", "e">>}
        train == sorted({x \in registered : ~ \E s \in skipped : Contains(x, s)})
        kept == SelectSeq(train,
                          LAMBDA x : ~ \E s \in SkippedForStyle(prompt_style) : Contains(x, s))
    IN IF Len(dataset_str) < 2 THEN Raised("ValueError")
       ELSE IF dataset \notin {"all", "eval"} THEN Raised("AssertionError")
       ELSE IF dataset = "all"
       THEN (IF sub_dataset = <<"train">> THEN Returned(kept)
             ELSE Raised("NotImplementedError"))
       ELSE IF sub_dataset = <<"all">>
       THEN Returned([k \in DOMAIN tasks |-> "mmlu:" \o tasks[k]] \o <<"gsm8k">>)
       ELSE IF sub_dataset = <<"mmlu">>
       THEN Returned([k \in DOMAIN tasks |-> "mmlu/" \o tasks[k]])
       ELSE IF sub_dataset[1] = "mmlu_offline" /\ Len(sub_dataset) >= 2
       THEN (IF Len(sub_dataset) = 2
             THEN Returned([k \in DOMAIN tasks |->
                              "mmlu_offline:" \o sub_dataset[2] \o ":" \o tasks[k]])
             ELSE Raised("ValueError"))
       ELSE IF sub_dataset = <<"modiste">>
       THEN Returned([k \in DOMAIN tasks |-> "modiste:" \o tasks[k]])
       ELSE Raised("NotImplementedError")

\* The calls of get_all_datasets_list.
ListCalls ==
    [fn : {"get_all_datasets_list"},
     dataset_str : {<<"all", "train">>, <<"all", "test">>, <<"all">>, <<"train", "all">>,
                    <<"eval", "all">>, <<"eval", "mmlu">>, <<"eval", "modiste">>,
                    <<"eval", "train">>, <<"eval", "mmlu_offline", "v1">>,
                    <<"all", "train", "x">>},
     prompt_style : {"choice", "oe", "None"},
     registered : {S \in SUBSET RegisteredNames : Cardinality(S) >= MinRegistered},
     tasks : {<<"t1", "t2">>}]

CallList ==
    /\ fn_pc = "call" /\ fn_call.fn = "get_all_datasets_list"
    /\ fn_ret' = get_all_datasets_list(fn_call.dataset_str, fn_call.prompt_style,
                                       fn_call.registered, fn_call.tasks)
    /\ fn_pc' = "done"
    /\ UNCHANGED <<parkedVars, klVars, collVars, recVars, ckptVars, fn_call, fn_log>>

\* ((N / S) * T).astype(int) as numpy computes it, in IEEE double arithmetic
\* (53-bit significand, round to nearest, ties to even), for 0 <= N <= S and
\* 0 <= T < 2^10.  Significands are held in limbs of 14 bits, most
\* significant first.
select_n(N, S, T) ==
    IF N = 0 \/ T = 0 THEN 0
    ELSE IF N = S THEN T
    ELSE
    LET B == 2^14
        bitlen(v) == CHOOSE b \in 0..30 : 2^b > v /\ (b = 0 \/ 2^(b - 1) <= v)
        \* N * 2^i mod S: what is left of N / S after i binary digits
        up15(r) == (r * 2^15) % S
        rem15(c) == IF c = 0 THEN N
                    ELSE IF c = 1 THEN up15(N)
                    ELSE IF c = 2 THEN up15(up15(N))
                    ELSE IF c = 3 THEN up15(up15(up15(N)))
                    ELSE IF c = 4 THEN up15(up15(up15(up15(N))))
                    ELSE up15(up15(up15(up15(up15(N)))))
        rem(i) == (rem15(i \div 15) * 2^(i % 15)) % S
        \* the first non-zero digit of N / S is digit e; the quotient is the
        \* digits e .. e + 52, an integer scaled by 2^-F
        F == 52 + CHOOSE i \in 1..30 : N * 2^i >= S /\ N * 2^(i - 1) < S
        limb(c, hi) == IF hi >= 14 THEN (rem(hi - 14) * B) \div S ELSE (N * 2^hi) \div S
        \* five digits d to five limbs: carries from the low end
        carry(d, c5, c4, c3, c2) ==
            <<d[1] + c2, (d[2] + c3) % B, (d[3] + c4) % B, (d[4] + c5) % B, d[5] % B>>
        norm3(d, c5, c4, c3) == carry(d, c5, c4, c3, (d[2] + c3) \div B)
        norm4(d, c5, c4) == norm3(d, c5, c4, (d[3] + c4) \div B)
        norm5(d, c5) == norm4(d, c5, (d[4] + c5) \div B)
        norm(d) == norm5(d, d[5] \div B)
        \* the integer part of prod * 2^-F
        int(prod) == (IF F <= 56 THEN prod[1] * 2^(56 - F) ELSE prod[1] \div 2^(F - 56))
                     + (IF F - 42 >= 14 THEN 0 ELSE prod[2] \div 2^(F - 42))
        \* the product P rounded to 53 digits: its k low digits are dropped
        nearest(P, k, low) ==
            IF k <= 0 THEN P
            ELSE norm(<<P[1], P[2], P[3], P[4],
                        P[5] - low
                        + (IF low > 2^(k - 1)
                              \/ (low = 2^(k - 1) /\ (P[5] \div 2^k) % 2 = 1)
                           THEN 2^k ELSE 0)>>)
        drop(P, k) == nearest(P, k, IF k <= 0 THEN 0 ELSE P[5] % 2^k)
        times(P) == int(drop(P, (IF P[1] > 0 THEN 56 + bitlen(P[1])
                                 ELSE 42 + bitlen(P[2])) - 53))
        \* the exact product quot * T: five limbs
        product(q) == times(norm(<<0, q[1] * T, q[2] * T, q[3] * T, q[4] * T>>))
        \* the quotient rounded to nearest, ties to even
        quot(l4, r) ==
            product(<<limb(1, F - 42), limb(2, F - 28), limb(3, F - 14),
                      l4 + (IF 2 * r > S \/ (2 * r = S /\ l4 % 2 = 1) THEN 1 ELSE 0)>>)
    IN quot(limb(4, F), rem(F))

\* Variant whose complement starts at the first record.
selected_from_start(all_n, max_n, comp, unf) ==
    LET total_n == Min(max_n, Sum(all_n))
        n(j) == IF unf THEN Min(max_n \div Len(all_n), all_n[j])
                ELSE select_n(all_n[j], Sum(all_n), total_n)
    IN [j \in DOMAIN all_n |->
           IF comp THEN [from |-> 0, to |-> all_n[j]]
           ELSE [from |-> 0, to |-> n(j)]]

\* _concat_datasets: the index range [from, to) selected of each dataset of the
\* list, in the order of the list; a dataset that the uniform complement leaves
\* out (n >= N) has the empty range.
selected(all_n, max_n, comp, unf) ==
    LET total_n == Min(max_n, Sum(all_n))
        n(j) == IF unf THEN Min(max_n \div Len(all_n), all_n[j])
                ELSE select_n(all_n[j], Sum(all_n), total_n)
    IN [j \in DOMAIN all_n |->
           IF comp THEN [from |-> Min(n(j), all_n[j]), to |-> all_n[j]]
           ELSE [from |-> 0, to |-> n(j)]]

\* _concat_datasets: the rows <<position in the list, index>> of the
\* concatenation; max_n // len(all_n) fails for no dataset in the uniform mode
\* and concatenate_datasets fails for an empty list of selections.
concat_datasets(all_n, max_n, comp, unf) ==
    LET RECURSIVE cat(_, _)
        cat(sel, j) ==
            IF j > Len(all_n) THEN <<>>
            ELSE [i \in 1..(sel[j].to - sel[j].from) |-> <<j, sel[j].from + i - 1>>]
                 \o cat(sel, j + 1)
        concatenate(sel) ==
            IF all_n = <<>> \/ (unf /\ comp /\ \A j \in DOMAIN all_n : sel[j].from >= sel[j].to)
            THEN Raised("ValueError")
            ELSE Returned(cat(sel, 1))
    IN IF unf /\ all_n = <<>> THEN Raised("ZeroDivisionError")
       ELSE concatenate(selected(all_n, max_n, comp, unf))

\* The sizes of the datasets of one split that are not None, in the order of
\* all_dataset_names (None is -1).
SplitList(members, s) ==
    LET all == [j \in DOMAIN members |-> members[j][s]]
    IN SelectSeq(all, LAMBDA v : v # -1)

\* get_combined_dataset, its outcome: the three concatenations, the training
\* one under the complement and uniform flags, the two others under neither.
combined(members, max_n, complement, uniform) ==
    LET all(tr, vl, te) ==
            IF tr.kind = "raised" THEN tr
            ELSE IF vl.kind = "raised" THEN vl
            ELSE IF te.kind = "raised" THEN te
            ELSE Returned(<<Dataset(tr.value), Dataset(vl.value), Dataset(te.value)>>)
    IN all(concat_datasets(SplitList(members, 1), max_n, complement, uniform),
           concat_datasets(SplitList(members, 2), max_n, FALSE, FALSE),
           concat_datasets(SplitList(members, 3), max_n, FALSE, FALSE))

\* What get_dataset returns for the members of a combination: the sizes of
\* train, validation and test, -1 for None.
Members ==
    LET one == ((0..MaxSize) \cup {7, 15, -1}) \X {-1, 0, 2} \X {-1, 2}
    IN {m \in UNION {[1..k -> one] : k \in 1..2} :
           \* a split list that is divided proportionally has a record
           \A s \in 1..3 : SplitList(m, s) = <<>> \/ Sum(SplitList(m, s)) > 0}

CombinedCalls ==
    [fn : {"get_combined_dataset"}, members : Members, max_n : (1..MaxN) \cup {22},
     complement : BOOLEAN, uniform : BOOLEAN]

get_combined_dataset ==
    /\ fn_pc = "call" /\ fn_call.fn = "get_combined_dataset"
    /\ fn_ret' = combined(fn_call.members, fn_call.max_n, fn_call.complement,
                          fn_call.uniform)
    /\ fn_pc' = "done"
    /\ UNCHANGED <<parkedVars, klVars, collVars, recVars, ckptVars, fn_call, fn_log>>

\* ------------------------------------------ generate.py, evaluate_dataset
\* Variant of evaluate_via_eos that returns metrics for a loader of no batch.
via_eos_total(n) == Returned([N |-> n, split |-> "unset"])

\* evaluate_via_eos over a loader of n examples: torch.cat of the empty lists
\* fails for no batch; else the metric dictionary (N and the calibration
\* values, not yet tagged with a split).
via_eos(n) ==
    IF n = 0 THEN Raised("RuntimeError") ELSE Returned([N |-> n, split |-> "unset"])

\* val_metrics = None, test_metrics = None
NoMetrics == [N |-> -1, split |-> "None"]

\* The calls of get_all and of the drivers.  get_all: one member dataset, the
\* caps, the flags and, under max_token_length, the rows that are too long.
\* generate_outputs_main: the length of the train split.  generate_output: the batch sizes of the loader.  evaluate_dataset:
\* batch_size, dataset (a name or None), the val_data and test_data arguments
\* and what get_dataset returns for the name (sizes, -1 for None).
DriverCalls ==
    [fn : {"get_all"}, members : {m \in Members : Len(m) = 1}, max_n : 1..MaxN,
     max_val_n : 1..2, complement : BOOLEAN, uniform : BOOLEAN,
     too_long : SUBSET {<<1, 0>>}]
    \cup [fn : {"generate_outputs_main"}, train : 0..MaxSize, process_index : 0..(MaxProcs - 1)]
    \cup [fn : {"generate_output"}, batches : UNION {[1..k -> 1..2] : k \in 0..2}]
    \cup [fn : {"evaluate_dataset"}, batch_size : 1..2, dataset : {"None", "boolq"},
          val_data : -1..MaxRows, test_data : -1..MaxRows,
          loaded : (-1..MaxRows) \X (-1..MaxRows)]

\* get_all: the combination of the training list; the validation rows are a
\* random permutation of the first min(len(vl), max_val_n) of them; both splits
\* are filtered by token length if max_token_length is given; no test split.
get_all ==
    /\ fn_pc = "call" /\ fn_call.fn = "get_all"
    /\ LET short(rows) == SelectSeq(rows, LAMBDA row : row \notin fn_call.too_long)
           select(tr, vl, k) ==
               \E choice \in {p \in [1..k -> 1..k] : \A i, j \in 1..k : p[i] = p[j] => i = j} :
                  fn_ret' = Returned(<<Dataset(short(tr)),
                                       Dataset(short([i \in 1..k |-> vl[choice[i]]])),
                                       NoneSplit>>)
           split(c) ==
               IF c.kind = "raised" THEN fn_ret' = c
               ELSE select(c.value[1].rows, c.value[2].rows,
                           Min(Len(c.value[2].rows), fn_call.max_val_n))
       IN split(combined(fn_call.members, fn_call.max_n, fn_call.complement,
                         fn_call.uniform))
    /\ fn_pc' = "done"
    /\ UNCHANGED <<parkedVars, klVars, collVars, recVars, ckptVars, fn_call, fn_log>>

\* generate_outputs_main: model and dataset are loaded, len(train_data) is
\* printed, and print(1/0) raises before the loop over the loaders; fn_log
\* holds the CSV files written.
generate_outputs_main ==
    /\ fn_pc = "call" /\ fn_call.fn = "generate_outputs_main"
    /\ fn_ret' = Raised("ZeroDivisionError")
    /\ fn_log' = <<>>
    /\ fn_pc' = "done"
    /\ UNCHANGED <<parkedVars, klVars, collVars, recVars, ckptVars, fn_call>>

\* generate_output, run to its end by the consumer: a loader of no batch
\* exhausts the generator at once; else the first batch is generated, decoded
\* and printed, and print(1/0) raises before its records are yielded; fn_log
\* holds the records yielded, <<batch, position>>.
generate_output ==
    /\ fn_pc = "call" /\ fn_call.fn = "generate_output"
    /\ fn_ret' = IF fn_call.batches = <<>> THEN Returned("StopIteration")
                 ELSE Raised("ZeroDivisionError")
    /\ fn_log' = <<>>
    /\ fn_pc' = "done"
    /\ UNCHANGED <<parkedVars, klVars, collVars, recVars, ckptVars, fn_call>>

\* evaluate_dataset: the two assertions, get_dataset for a named dataset (it
\* replaces val_data and test_data), then evaluate_via_eos over validation and
\* over test, each if not None; fn_log holds the calls made, in order.
evaluate_dataset ==
    /\ fn_pc = "call" /\ fn_call.fn = "evaluate_dataset"
    /\ LET named == fn_call.dataset # "None"
           val_data == IF named THEN fn_call.loaded[1] ELSE fn_call.val_data
           test_data == IF named THEN fn_call.loaded[2] ELSE fn_call.test_data
           load == IF named THEN <<"get_dataset">> ELSE <<>>
           tagged(m, split) == IF m.kind = "raised" THEN m
                               ELSE Returned([m.value EXCEPT !.split = split])
           val == IF val_data = -1 THEN Returned(NoMetrics)
                  ELSE tagged(via_eos(val_data), "validation")
           test == IF test_data = -1 THEN Returned(NoMetrics)
                   ELSE tagged(via_eos(test_data), "test")
           val_log == IF val_data = -1 THEN <<>> ELSE <<"evaluate_via_eos:validation">>
           test_log == IF test_data = -1 THEN <<>> ELSE <<"evaluate_via_eos:test">>
       IN IF fn_call.batch_size # 1
             \/ (~ named /\ fn_call.val_data = -1 /\ fn_call.test_data = -1)
          THEN fn_ret' = Raised("AssertionError") /\ fn_log' = <<>>
          ELSE IF val.kind = "raised"
          THEN fn_ret' = val /\ fn_log' = load \o val_log
          ELSE IF test.kind = "raised"
          THEN fn_ret' = test /\ fn_log' = load \o val_log \o test_log
          ELSE /\ fn_ret' = Returned(<<val.value, test.value>>)
               /\ fn_log' = load \o val_log \o test_log
    /\ fn_pc' = "done"
    /\ UNCHANGED <<parkedVars, klVars, collVars, recVars, ckptVars, fn_call>>

InitFn ==
    /\ UnitIdle("call")
    /\ Parked
    /\ fn_call \in FormatterCalls \cup ConstructorCalls \cup ListCalls \cup CombinedCalls
                   \cup DriverCalls
    /\ fn_pc = "call"
    /\ fn_log = <<>>
    /\ fn_ret = <<>>

NextFn ==
    \/ CallFormatter
    \/ get_boolq
    \/ get_hellaswag
    \/ get_copa
    \/ get_truthful_qa
    \/ CallList
    \/ get_combined_dataset
    \/ get_all
    \/ generate_outputs_main
    \/ generate_output
    \/ evaluate_dataset

SpecFn == InitFn /\ [][NextFn]_vars

\* ------------------------------------------------------------- properties
IsForward(e) == e.op \in {"primary_fwd", "query_fwd", "ref_fwd"}

Steps == 1..ninv

\* C1: in compute_kl_loss a completed reference forward pass is followed at once
\* by set_adapter("default"); only set_adapter(ref) and that one forward pass
\* happen while the reference adapter is active; and for an unsupported kl_type
\* the restore has happened when NotImplementedError is raised.
C1_RefWindowRestored ==
    \A i \in Steps :
        LET log == tlog[i] IN
        /\ \A j \in 1..Len(log) :
              /\ log[j].op = "ref_fwd" =>
                    /\ j > 1 /\ log[j - 1] = Event("set_adapter", args.ref_adapter_name, FALSE)
                    /\ j = Len(log) => tpc[i] = "kl_restore" /\ active[0] = args.ref_adapter_name
                    /\ j < Len(log) => log[j + 1] = Event("set_adapter", DEFAULT, FALSE)
              /\ log[j].adapter = args.ref_adapter_name =>
                    log[j].op \in {"set_adapter", "ref_fwd"}
        /\ Cardinality({j \in 1..Len(log) : log[j].op = "ref_fwd"}) <= 1
        /\ tpc[i] = "kl_div" => active[0] = DEFAULT
        /\ (\E j \in 1..Len(log) : log[j] = Event("set_adapter", DEFAULT, FALSE)) =>
              Cardinality({j \in 1..Len(log) :
                  IsForward(log[j]) /\ log[j].adapter = args.ref_adapter_name}) = 1
        /\ texc[i] = "NotImplementedError" =>
              /\ active[0] = DEFAULT
              /\ Last(log) = Event("set_adapter", DEFAULT, FALSE)

\* C1 witness: an unsupported kl_type raised, after the reference pass and the restore.
C1_Witness ==
    /\ texc[1] = "NotImplementedError"
    /\ \E j \in 1..Len(tlog[1]) : tlog[1][j].op = "ref_fwd"
    /\ active[0] = DEFAULT

\* C2: every forward pass of compute_loss that requires gradients (the primary
\* pass and the confidence-query pass) runs while the active adapter is "default".
C2_GradForwardsUseDefault ==
    \A i \in Steps : \A j \in 1..Len(tlog[i]) :
        tlog[i][j].op \in {"primary_fwd", "query_fwd"} => tlog[i][j].adapter = DEFAULT

\* C3: whenever compute_loss has been left, by return or by exception, the
\* reference adapter is not the active adapter.
C3_RestoredOnEveryExit ==
    \A i \in Steps :
        tpc[i] \in {"returned", "raised"} => active[0] # args.ref_adapter_name

\* C10 as stated: an unsupported kl_type never gets past construction, so no
\* training step, forward pass or adapter switch happens under it.
C10_RejectedAtConstruction ==
    args.kl_type \notin KlSupported =>
        /\ phase \in {"new", "rejected"}
        /\ \A i \in Steps : tlog[i] = <<>> /\ tpc[i] = "idle"

\* C10 amended: construction accepts every kl_type; an unsupported kl_type raises
\* NotImplementedError only inside compute_kl_loss, during a training step with
\* scale_temp false, after the primary, confidence-query and reference forward
\* passes and both adapter switches; with scale_temp true it never raises and
\* the step returns.
C10_RaisedInsideStep ==
    /\ phase # "rejected"
    /\ \A i \in Steps :
          /\ texc[i] = "NotImplementedError" =>
                /\ args.kl_type \notin KlSupported
                /\ ~args.scale_temp
                /\ Ops(tlog[i]) = <<"primary_fwd", "query_fwd", "set_adapter",
                                    "ref_fwd", "set_adapter">>
          /\ (tpc[i] \in {"total", "returned"} /\ ~args.scale_temp) =>
                args.kl_type \in KlSupported
          /\ (tpc[i] \in {"total", "returned"} /\ args.scale_temp) =>
                \A j \in 1..Len(tlog[i]) : tlog[i][j].op \in {"primary_fwd", "query_fwd", "total_loss"}

\* C10 witnesses: the late NotImplementedError, reached after a first step's passes.
C10_Witness ==
    /\ texc[1] = "NotImplementedError"
    /\ args.kl_type \notin KlSupported
    /\ Len(tlog[1]) = 5

\* The step's own events so far all ran under one and the same active adapter.
AdapterKept(log) == \A j, k \in 1..Len(log) : log[j].adapter = log[k].adapter

\* C11: compute_loss returns total_loss = unc_loss + kl_decay * kl_loss; with
\* scale_temp the consistency term is skipped: compute_kl_loss is not invoked
\* in that step, so no reference forward pass runs, the step never switches the
\* active adapter, and kl_loss is the constant 0.
C11_ScaleTempSkipsKl ==
    \A i \in Steps :
        /\ tpc[i] = "returned" =>
              /\ loss[i].unc \in LossValues /\ loss[i].kl \in LossValues
              /\ loss[i].total = loss[i].unc + args.kl_decay * loss[i].kl
        /\ args.scale_temp =>
              /\ tpc[i] \notin {"kl_set", "kl_fwd", "kl_restore", "kl_div"}
              /\ \A j \in 1..Len(tlog[i]) :
                    tlog[i][j].op \in {"primary_fwd", "query_fwd", "total_loss"}
              /\ AdapterKept(tlog[i])
              /\ (tpc[i] # "idle" /\ Len(tlog[i]) > 0) => active[0] = tlog[i][1].adapter
              /\ loss[i].kl \in {-1, 0}
              /\ tpc[i] \in {"total", "returned"} => loss[i].kl = 0
              /\ tpc[i] = "returned" => loss[i].total = loss[i].unc

\* C11 witness: a step with scale_temp and a positive kl_decay returned a
\* positive loss made of unc_loss alone.
C11_Witness ==
    /\ args.scale_temp /\ args.kl_decay > 0
    /\ tpc[1] = "returned"
    /\ loss[1].total = loss[1].unc /\ loss[1].unc > 0
    /\ Ops(tlog[1]) = <<"primary_fwd", "query_fwd", "total_loss">>

\* C4: under any interleaving of two invocations of compute_loss on one model,
\* no forward pass that requires gradients runs while the reference adapter is
\* the active adapter.
C4_NoGradPassUnderRef ==
    \A i \in Steps : \A j \in 1..Len(tlog[i]) :
        (tlog[i][j].grad /\ IsForward(tlog[i][j])) =>
            tlog[i][j].adapter # args.ref_adapter_name

\* C5: in evaluate_via_eos on a PEFT model, in every batch the primary forward
\* pass runs under "default" and the confidence-query forward pass under
\* "query" when the model has that adapter, under "default" otherwise.
C5_EvalAdapters ==
    (prog = "eos" /\ is_peft) =>
        \A r \in Live : \A j \in 1..Len(elog[r]) :
            /\ elog[r][j].op = "primary_fwd" => elog[r][j].adapter = DEFAULT
            /\ elog[r][j].op = "query_fwd" =>
                  elog[r][j].adapter = (IF QUERY \in peft_config THEN QUERY ELSE DEFAULT)

\* C5 witness: a later batch's primary pass, after a batch that left "query" active.
C5_Witness ==
    /\ prog = "eos" /\ is_peft /\ QUERY \in peft_config
    /\ \E r \in Live :
          /\ round[r] >= 1
          /\ epc[r] = "wait"
          /\ \E j \in 1..Len(elog[r]) : elog[r][j] = Event("primary_fwd", DEFAULT, FALSE)
          /\ \E j \in 1..Len(elog[r]) : elog[r][j] = Event("query_fwd", QUERY, FALSE)

BatchOrder == <<"primary_fwd", "predict", "build_query", "query_fwd", "gather">>

StepOps(log) == SelectSeq(Ops(log), LAMBDA o : o # "set_adapter")

IsPrefix(s, t) == Len(s) <= Len(t) /\ s = SubSeq(t, 1, Len(s))

InBatch(r) == epc[r] \in {"primary", "predict", "build", "query", "gather", "wait"}

\* C6: evaluate_via_eos visits each batch once, in loader order; within a batch
\* the steps run in the order primary forward, greedy prediction, query built
\* from those predictions, query forward, gather, with one primary and one
\* query forward pass; metrics are computed only after the last batch's gather.
C6_SinglePassInOrder ==
    prog = "eos" =>
        \A r \in Live :
            /\ visited[r] = [j \in 1..Len(visited[r]) |-> j - 1]
            /\ Len(visited[r]) = round[r] + (IF InBatch(r) THEN 1 ELSE 0)
                  \/ epc[r] = "raised"
            /\ IsPrefix(StepOps(elog[r]), BatchOrder)
            /\ epc[r] = "predict" => StepOps(elog[r]) = SubSeq(BatchOrder, 1, 1)
            /\ epc[r] = "build" => StepOps(elog[r]) = SubSeq(BatchOrder, 1, 2)
            /\ epc[r] = "query" =>
                  /\ StepOps(elog[r]) = SubSeq(BatchOrder, 1, 3)
                  /\ cur[r].query = cur[r].pred /\ cur[r].pred = cur[r].ex
                  /\ cur[r].ex = Example(round[r], r)
            /\ epc[r] \in {"gather", "wait"} => StepOps(elog[r]) = SubSeq(BatchOrder, 1, 4)
            /\ (epc[r] = "loop" /\ round[r] > 0) => StepOps(elog[r]) = BatchOrder
            /\ (epc[r] \in {"auroc", "done"} \/ result[r] # NoResult) =>
                  /\ round[r] = NumBatches
                  /\ Len(visited[r]) = NumBatches
                  /\ StepOps(elog[r]) = BatchOrder

\* C6 witness: a process returned its metrics after a pass over two batches.
C6_Witness ==
    /\ prog = "eos"
    /\ \E r \in Live : epc[r] = "done" /\ Len(visited[r]) >= 2

EvaluatedBy(q) == {Example(visited[q][j], q) : j \in 1..Len(visited[q])}

Evaluated == UNION {EvaluatedBy(q) : q \in Live}

\* C7: after the loop of evaluate_via_eos every process's accumulators hold the
\* results of every example evaluated by any process, and the sample count N
\* is the same on every process and equals the number of examples evaluated
\* across all processes (an example re-evaluated by the loader's wrap-around
\* counts once).
C7_AllGatherUnion ==
    prog = "eos" =>
        \A r \in Live :
            /\ epc[r] \in {"auroc", "done"} =>
                  /\ Range(acc[r]) = Evaluated
                  /\ \A q \in Live : \A k \in 0..(NumBatches - 1) :
                        Example(k, q) \in Range(acc[r])
                  /\ Len(acc[r]) = Cardinality(Evaluated)
            /\ epc[r] = "done" =>
                  /\ result[r].N = Cardinality(Evaluated)
                  /\ \A q \in Live : epc[q] = "done" => result[q].N = result[r].N

\* C7 witness: two processes returned, over a split that does not divide evenly.
C7_Witness ==
    /\ prog = "eos" /\ nproc = 2 /\ data_len = 3
    /\ \A r \in Live : epc[r] = "done" /\ result[r].N = 3

Collectives == IF prog = "eos" THEN {"metrics"} ELSE {"N", "N_acc"}

\* The collectives of its current batch that a process has already left.
Left(r) == IF epc[r] \in {"gather_acc", "wait_acc"} THEN {"N"} ELSE {}

C8_Barrier ==
    \A r \in Live :
        /\ \A k \in 0..(round[r] - 1) : \A c \in Collectives : AllEntered(c, k)
        /\ \A c \in Left(r) : AllEntered(c, round[r])
        /\ gathers[r] <= Cardinality(Collectives)
        /\ (epc[r] = "loop" /\ round[r] > 0) => gathers[r] = Cardinality(Collectives)
        /\ InBatch(r) \/ epc[r] \in {"generate", "gather_n", "wait_n"} => gathers[r] = 0
        /\ epc[r] \in {"gather_acc", "wait_acc"} => gathers[r] = 1

AllFinished == \A r \in Live : epc[r] = "done"

SomeRaised == \E r \in Live : epc[r] = "raised"

SingleClass(r) == Cardinality({correct[acc[r][j]] : j \in 1..Len(acc[r])}) < 2

\* C9: in evaluate_via_eos a failing AUROC computation does not abort: the
\* complete metric dictionary is returned with unc_auroc NaN (and only then);
\* a failure of any other step leaves the function as an exception, with no
\* dictionary returned.
C9_AurocFailureRecovered ==
    prog = "eos" =>
        \A r \in Live :
            /\ epc[r] = "done" =>
                  /\ DOMAIN result[r] = MetricKeys
                  /\ result[r].N = Len(acc[r])
                  /\ (result[r].unc_auroc = "nan") <=> SingleClass(r)
                  /\ \A k \in MetricKeys \ {"N", "unc_auroc"} : result[r][k] = "value"
                  /\ eexc[r] = "none"
            /\ eexc[r] # "ValueError"
            /\ (epc[r] = "raised") <=> (eexc[r] # "none")
            /\ epc[r] = "raised" => result[r] = NoResult

\* C9 witness: all labels of one class, and the dictionary came back with NaN.
C9_Witness ==
    /\ prog = "eos" /\ nproc = 2
    /\ \E r \in Live : epc[r] = "done" /\ SingleClass(r) /\ result[r].unc_auroc = "nan"

\* Positions (0-based, as in the code) of the logits of example b whose
\* divergence the code's statement says must count: those whose next label is
\* not the sentinel.
Completion(b) ==
    {t \in 0..(Len(kl_in.labels[b]) - 2) : kl_in.labels[b][(t + 1) + 1] # IGNORE_LABEL}

RECURSIVE SumOver(_, _)
SumOver(f, S) == IF S = {} THEN 0 ELSE LET x == CHOOSE y \in S : TRUE
                                       IN f[x] + SumOver(f, S \ {x})

C13_LabelsMatchTargetSpan ==
    (cpc = "returned" /\ "labels" \in DOMAIN batch) =>
        \A i \in DOMAIN instances :
            LET kept == {j \in DOMAIN batch.labels[i] : batch.labels[i][j] # IGNORE_LABEL}
            IN /\ kept = {j \in DOMAIN batch.input_ids[i] :
                              batch.input_ids[i][j] = ANSWER_TOKEN}
               /\ Cardinality(kept) =
                     Tokenizer(TRUE).length[i] - Tokenizer(FALSE).length[i]
               /\ \A j \in kept : batch.attention_mask[i][j] = 1

\* C14: a record whose tokenization with the target is no longer than the one
\* without it gets every position of its labels row set to the ignore sentinel.
C14_NoTargetAllIgnored ==
    (cpc = "returned" /\ "labels" \in DOMAIN batch) =>
        \A i \in DOMAIN instances :
            Tokenizer(TRUE).length[i] <= Tokenizer(FALSE).length[i] =>
                \A j \in DOMAIN batch.labels[i] : batch.labels[i][j] = IGNORE_LABEL

\* C15: when the collator produces labels, labels has the shape of input_ids
\* and every entry is the ignore sentinel or the input_ids entry at the same
\* position; labels are produced iff the first record has the target field.
C15_LabelsShapeAndValues ==
    cpc = "returned" =>
        /\ ("labels" \in DOMAIN batch) <=> instances[1].has_target
        /\ "labels" \in DOMAIN batch =>
              /\ DOMAIN batch.labels = DOMAIN batch.input_ids
              /\ \A i \in DOMAIN batch.labels :
                    /\ DOMAIN batch.labels[i] = DOMAIN batch.input_ids[i]
                    /\ \A j \in DOMAIN batch.labels[i] :
                          batch.labels[i][j] \in {IGNORE_LABEL, batch.input_ids[i][j]}

\* C15 witness: labels for a padded batch of two, with masked and kept entries.
C15_Witness ==
    /\ cpc = "returned" /\ "labels" \in DOMAIN batch
    /\ Len(instances) = 2 /\ ~instances[2].has_target
    /\ \E j \in DOMAIN batch.input_ids[2] : batch.input_ids[2][j] = PAD_TOKEN
    /\ \E j \in DOMAIN batch.labels[1] : batch.labels[1][j] = IGNORE_LABEL
    /\ \E j \in DOMAIN batch.labels[1] : batch.labels[1][j] = ANSWER_TOKEN

\* C16: the input_ids and attention_mask the collator returns are those of the
\* tokenization of the records, whether or not labels were computed: the
\* target-less tokenization and the masking write to labels only.
C16_InputsUntouchedByLabels ==
    /\ cpc = "returned" =>
          /\ batch.input_ids = Tokenizer(TRUE).input_ids
          /\ batch.attention_mask = Tokenizer(TRUE).attention_mask
    /\ cpc = "tokenized" => batch = [k \in {"input_ids", "attention_mask"} |->
                                        Tokenizer(TRUE)[k]]

\* C16 witness: labels were computed and differ from input_ids, which still
\* hold the target and the text before it.
C16_Witness ==
    /\ cpc = "returned" /\ "labels" \in DOMAIN batch
    /\ batch.labels # batch.input_ids
    /\ batch.input_ids[1] = <<PROMPT_TOKEN, PROMPT_TOKEN, ANSWER_TOKEN>>
    /\ batch.labels[1] = <<IGNORE_LABEL, IGNORE_LABEL, ANSWER_TOKEN>>

\* C17: in each evaluation routine of eos.py the records collated for the
\* primary-answer forward pass do not contain the target field: the targets
\* are taken out before collation and only the reference labels are derived
\* from them, and no labels tensor is passed to the model.
C17_NoTargetInPrimaryInput ==
    /\ rpc \in {"context_free", "primary", "labels", "done"} =>
          /\ \A i \in Batch : "target" \notin DOMAIN records[i]
          /\ DOMAIN targets = Batch
    /\ \A j \in 1..Len(calls) :
          /\ \A i \in Batch : "target" \notin DOMAIN calls[j].instances[i]
          /\ "labels" \notin calls[j].keys
          /\ calls[j].kind = "primary" =>
                /\ j = Len(calls)
                /\ calls[j].instances = records
    /\ rpc \in {"labels", "done"} => Len(calls) > 0 /\ Last(calls).kind = "primary"
    /\ rpc = "done" => ref_labels = [i \in Batch |-> <<"token of", targets[i]>>]

\* C17 witness: the contextual-calibration routine finished a batch of two:
\* three context-free calls and the primary call, targets held aside.
C17_Witness ==
    /\ rpc = "done" /\ rcfg.routine = "cc"
    /\ Len(calls) = 4
    /\ targets = <<"a", "b">>
    /\ Last(calls).kind = "primary"

\* C20: a Text Record is never mutated after construction except to strip its
\* target: no formatter or evaluation routine assigns to a field of an already
\* constructed record.
C20_OnlyTargetStripped ==
    \A j \in 1..Len(rlog) : rlog[j].op = "pop" /\ rlog[j].field = "target"

\* C18: a checkpoint written by _save holds only the "default" adapter's
\* weights, never the reference adapter or the base model; the temperature
\* file is written iff scale_temp is enabled and the model has a parameter
\* whose name contains "temperature", holds only such parameters, and when
\* there is none no file is written and the save completes.
C18_CheckpointContents ==
    ckpt # {} =>
        LET temperature == {n \in DOMAIN params : HasPart(n, "temperature")}
            written == {f.file : f \in ckpt}
        IN /\ [file |-> "adapter_model", keys |-> {ParamNames.default}] \in ckpt
           /\ \A f \in ckpt : \A k \in f.keys :
                 /\ k \notin {ParamNames.ref, ParamNames.base, ParamNames.query}
                 /\ f.file = "temperature_adapter.bin" => k \in temperature
                 /\ f.file = "adapter_model" => k = ParamNames.default
           /\ ("temperature_adapter.bin" \in written) <=>
                 (tuner = "UncertaintyTuner" /\ args.scale_temp /\ temperature # {})
           /\ "temperature_adapter.bin" \in written =>
                 [file |-> "temperature_adapter.bin", keys |-> temperature] \in ckpt
           /\ "training_args.bin" \in written
           /\ \A f, g \in ckpt : f.file = g.file => f = g

\* C18 witness: a model with a reference adapter and a temperature, saved by
\* the UncertaintyTuner with scale_temp: adapter file and temperature file.
C18_Witness ==
    /\ tuner = "UncertaintyTuner" /\ args.scale_temp
    /\ ParamNames.ref \in DOMAIN params /\ ParamNames.temperature \in DOMAIN params
    /\ {f.file : f \in ckpt} =
          {"adapter_model", "temperature_adapter.bin", "tokenizer", "training_args.bin"}

\* C19: after prepare_model_for_temperature_scaling a parameter is trainable
\* iff its name contains "temperature", whatever it was before; a second call
\* changes nothing.
C19_OnlyTemperatureTrainable ==
    prepared >= 1 =>
        \A n \in DOMAIN params : params[n] <=> HasPart(n, "temperature")

\* C19 witness: the second call has returned on a model with a temperature
\* and frozen adapters.
C19_Witness ==
    /\ prepared = 2
    /\ ParamNames.temperature \in DOMAIN params /\ params[ParamNames.temperature]
    /\ ParamNames.ref \in DOMAIN params /\ ~params[ParamNames.default]

Constructors == {"get_boolq", "get_hellaswag", "get_copa", "get_truthful_qa", "get_all"}

ConstructorReturned ==
    fn_pc = "done" /\ fn_call.fn \in Constructors /\ fn_ret.kind = "returned"

\* C21 as stated: every dataset constructor returns three ordered collections
\* (train, validation, test); a split the dataset lacks is an empty collection.
C21_ThreeCollections ==
    ConstructorReturned =>
        /\ Len(fn_ret.value) = 3
        /\ \A k \in 1..3 : fn_ret.value[k].kind = "Dataset"

\* C21, amended: every dataset constructor returns three values in the order
\* (train, validation, test); a split the constructor supplies is a dataset
\* (for the constructors of one hub dataset: one row per row of the loaded
\* split, in order) and a split it does not supply is None: test for boolq,
\* hellaswag, copa and the combination, train and test for truthful_qa.
C21_ThreeSplitsOrNone ==
    ConstructorReturned =>
        LET supplied == IF fn_call.fn = "get_truthful_qa" THEN {"validation"}
                        ELSE {"train", "validation"}
            name == <<"train", "validation", "test">>
        IN /\ Len(fn_ret.value) = 3
           /\ \A k \in 1..3 :
                 IF name[k] \in supplied
                 THEN /\ fn_ret.value[k].kind = "Dataset"
                      /\ fn_call.fn # "get_all" =>
                            DOMAIN fn_ret.value[k].rows = DOMAIN fn_call.hub[name[k]]
                 ELSE fn_ret.value[k].kind = "None"

C21_Witness ==
    /\ ConstructorReturned
    /\ fn_call.fn = "get_copa"
    /\ fn_call.hub["test"] # <<>>
    /\ fn_ret.value[1].rows # <<>>
    /\ fn_ret.value[3].kind = "None"

\* C22: format_sample of copa and truthful_qa, for a supported format: with
\* with_query_label the query_label is 0 or 1, the output is one of the
\* sample's answer choices and it is the target's choice iff query_label is 1;
\* without it output and query_label are both None.
C22_OutputMatchesQueryLabel ==
    (/\ fn_pc = "done"
     /\ fn_call.fn \in {"copa.format_sample", "truthful_qa.format_sample"}
     /\ fn_call.format \in {"choice", "oe"}) =>
        /\ fn_ret.kind = "returned"
        /\ LET rec == fn_ret.value
               answer(k) == format_sample(IF fn_call.fn = "copa.format_sample"
                                          THEN "copa" ELSE "truthful_qa",
                                          fn_call.sample, fn_call.format, 1, k).value.output
               choices == 0..(fn_call.sample.n - 1)
           IN IF fn_call.with_query_label
              THEN /\ rec.query_label \in {"0", "1"}
                   /\ \E k \in choices : rec.output = answer(k)
                   /\ \A k \in choices :
                         rec.output = answer(k) =>
                            (k = fn_call.sample.label <=> rec.query_label = "1")
              ELSE rec.output = "None" /\ rec.query_label = "None"

C22_Witness ==
    /\ fn_pc = "done"
    /\ fn_call.fn = "truthful_qa.format_sample"
    /\ fn_call.format = "oe"
    /\ fn_call.with_query_label
    /\ fn_call.sample.n = 3
    /\ fn_ret.kind = "returned"
    /\ fn_ret.value.query_label = "0"
    /\ fn_ret.value.output = ChoiceText(2)

\* C23: a formatter given an unsupported prompt format raises
\* NotImplementedError and returns no record: boolq's __format_prompt for a
\* style other than "choice", hellaswag's __format_sample for a style other
\* than "choice"/"oe", format_sample and (with kshot > 0) format_sample_prompt
\* of copa and truthful_qa for a format other than CHOICE/OE.
C23_UnsupportedFormatRaises ==
    (/\ fn_pc = "done"
     /\ fn_call \in FormatterCalls
     /\ IF fn_call.fn = "boolq.__format_prompt" THEN fn_call.style # "choice"
        ELSE IF fn_call.fn = "hellaswag.__format_sample"
        THEN fn_call.style \notin {"choice", "oe"}
        ELSE fn_call.format \notin {"choice", "oe"}
     /\ "kshot" \in DOMAIN fn_call => fn_call.kshot > 0) =>
        fn_ret = Raised("NotImplementedError")

C23_Witness ==
    /\ fn_pc = "done"
    /\ fn_call.fn = "boolq.__format_prompt"
    /\ fn_call.style = "oe"
    /\ fn_ret = Raised("NotImplementedError")

\* C24: evaluate_via_eos over a loader that yields no batch returns no metric
\* dictionary: every process ends with the error of concatenating nothing; over
\* a non-empty loader a process that returns has the six metrics with N >= 1,
\* and every process returns unless a step raises.
C24_EmptyLoaderFails ==
    /\ [](prog = "eos" =>
            \A r \in Live :
               /\ data_len = 0 =>
                     /\ result[r] = NoResult
                     /\ epc[r] \in {"loop", "raised"}
                     /\ epc[r] = "raised" => eexc[r] = "RuntimeError"
               /\ epc[r] = "done" =>
                     /\ DOMAIN result[r] = MetricKeys
                     /\ result[r].N >= 1)
    /\ (prog = "eos" /\ data_len = 0) ~>
           (\A r \in Live : epc[r] = "raised" /\ eexc[r] = "RuntimeError")
    /\ (prog = "eos" /\ data_len > 0) ~> (AllFinished \/ SomeRaised)

C24_Witness ==
    /\ prog = "eos" /\ data_len = 0 /\ nproc = 2
    /\ \A r \in Live : epc[r] = "raised" /\ eexc[r] = "RuntimeError" /\ result[r] = NoResult

\* C27: get_all_datasets_list returns only for strings <all|eval>:<split>;
\* another prefix fails the format assertion, an unknown split raises
\* NotImplementedError; the list of "all:train" is sorted, holds no registered
\* name that includes one of all, sub, mmlu, bbmc, gsm8k, offline, modiste,
\* holds every other registered name, and leaves out the names that include
\* "hellaswag" iff prompt_style is "oe".
C27_TrainingListFiltered ==
    (fn_pc = "done" /\ fn_call.fn = "get_all_datasets_list") =>
        LET str == fn_call.dataset_str
            res == fn_ret.value
            in_res(x) == \E k \in DOMAIN res : res[k] = x
            banned == {<<"a", "l", "l">>, <<"s", "u", "b">>, <<"m", "m", "l", "u">>,
                       <<"b", "b", "m", "c">>, <<"g", "s", "m", "8", "k">>,
                       <<"o", "f", "f", "l", "i", "n", "e">>,
                       <<"m", "o", "d", "i", "s", "t", "e">>}
            hella == <<"h", "e", "l", "l", "a", "s", "w", "a", "g">>
            known == {<<"all">>, <<"mmlu">>, <<"modiste">>}
        IN /\ fn_ret.kind = "returned" => Len(str) >= 2 /\ str[1] \in {"all", "eval"}
           /\ (Len(str) >= 2 /\ str[1] \notin {"all", "eval"}) =>
                 fn_ret = Raised("AssertionError")
           /\ (Len(str) >= 2 /\ str[1] = "all" /\ Tail(str) # <<"train">>) =>
                 fn_ret = Raised("NotImplementedError")
           /\ (Len(str) >= 2 /\ str[1] = "eval" /\ Tail(str) \notin known
                  /\ str[2] # "mmlu_offline") =>
                 fn_ret = Raised("NotImplementedError")
           /\ str = <<"all", "train">> =>
                 /\ fn_ret.kind = "returned"
                 /\ \A i, j \in DOMAIN res : i < j => StrLt(res[i], res[j])
                 /\ \A x \in fn_call.registered :
                       in_res(x) <=>
                          /\ ~ \E s \in banned : Contains(x, s)
                          /\ ~ (fn_call.prompt_style = "oe" /\ Contains(x, hella))
                 /\ \A k \in DOMAIN res : res[k] \in fn_call.registered

C27_Witness ==
    /\ fn_pc = "done" /\ fn_call.fn = "get_all_datasets_list"
    /\ fn_call.dataset_str = <<"all", "train">>
    /\ fn_call.prompt_style = "oe"
    /\ fn_call.registered = RegisteredNames
    /\ fn_ret = Returned(<<<<"b", "o", "o", "l", "q">>, <<"c", "o", "p", "a">>,
                           <<"t", "r", "u", "t", "h", "f", "u", "l", "_", "q", "a">>>>)

\* The indices of member j among the rows of a concatenation.
IndicesOf(ds, j) == {ds.rows[i][2] : i \in {h \in DOMAIN ds.rows : ds.rows[h][1] = j}}

IndexRange(r) == r.from .. (r.to - 1)

CombinedDone == fn_pc = "done" /\ fn_call.fn = "get_combined_dataset"

\* C25: for every member dataset of the train split, uniform or proportional,
\* the indices selected with complement = false and those selected with
\* complement = true are disjoint and together are all indices 0 .. N - 1 of
\* the dataset; the training collection that a call returns holds exactly the
\* indices selected under its own complement flag.
C25_ComplementPartitions ==
    CombinedDone =>
        LET all_n == SplitList(fn_call.members, 1)
            mine == selected(all_n, fn_call.max_n, fn_call.complement, fn_call.uniform)
            other == selected(all_n, fn_call.max_n, ~ fn_call.complement, fn_call.uniform)
        IN \A j \in DOMAIN all_n :
              /\ IndexRange(mine[j]) \cap IndexRange(other[j]) = {}
              /\ IndexRange(mine[j]) \cup IndexRange(other[j]) = 0 .. (all_n[j] - 1)
              /\ fn_ret.kind = "returned" =>
                    IndicesOf(fn_ret.value[1], j) = IndexRange(mine[j])

C25_Witness ==
    /\ CombinedDone /\ fn_ret.kind = "returned"
    /\ fn_call.complement /\ ~ fn_call.uniform
    /\ SplitList(fn_call.members, 1) = <<2, 2>> /\ fn_call.max_n = 3
    /\ IndicesOf(fn_ret.value[1], 1) = {1} /\ IndicesOf(fn_ret.value[1], 2) = {1}

\* C26 as stated: without complement, member i of k contributes
\* min(max_n // k, N_i) records in the uniform mode and
\* floor(N_i * min(max_n, sum N) / sum N) in the proportional mode; validation
\* and test are always selected proportionally, without complement.
C26_SelectedCounts ==
    (CombinedDone /\ fn_ret.kind = "returned" /\ ~ fn_call.complement) =>
        LET count(s, j) == Cardinality(IndicesOf(fn_ret.value[s], j))
            floor(all_n, j) ==
                (all_n[j] * Min(fn_call.max_n, Sum(all_n))) \div Sum(all_n)
        IN /\ \A j \in DOMAIN SplitList(fn_call.members, 1) :
                 LET all_n == SplitList(fn_call.members, 1)
                 IN count(1, j) = IF fn_call.uniform
                                  THEN Min(fn_call.max_n \div Len(all_n), all_n[j])
                                  ELSE floor(all_n, j)
           /\ \A s \in 2..3 : \A j \in DOMAIN SplitList(fn_call.members, s) :
                 count(s, j) = floor(SplitList(fn_call.members, s), j)

\* The examples that the processes handled in the batches before batch k, one
\* per process and batch, and those of them answered with the label.
SeenBefore(k) == {<<b, q>> : b \in 0..(k - 1), q \in 1..nproc}

MatchedBefore(k) == {s \in SeenBefore(k) : correct[gather(s[1])[s[2]]]}

C28_Counted ==
    prog = "gen" =>
        \A r \in Live :
            /\ 0 <= counts[r].N_acc /\ counts[r].N_acc <= counts[r].N
            /\ epc[r] \in {"loop", "done"} =>
                  /\ counts[r].N = Cardinality(SeenBefore(round[r]))
                  /\ counts[r].N_acc = Cardinality(MatchedBefore(round[r]))
            /\ epc[r] = "done" =>
                  /\ counts[r].N > 0
                  /\ result[r] = [exact_match_acc |-> <<counts[r].N_acc, counts[r].N>>,
                                  N |-> counts[r].N]
            /\ (data_len = 0 /\ epc[r] # "loop") =>
                  epc[r] = "raised" /\ eexc[r] = "ZeroDivisionError"

C28_Monotone ==
    \A r \in Ranks : counts'[r].N >= counts[r].N /\ counts'[r].N_acc >= counts[r].N_acc

\* C28: in evaluate of evaluate_gen.py, after every batch 0 <= N_acc <= N, N is
\* the number of examples handled so far by all processes, N_acc the number of
\* them whose response equals the label; no counter ever decreases; the returned
\* exact_match_acc is N_acc / N, and with an empty loader the division raises
\* and no metric is returned.
C28_CountersExact == []C28_Counted /\ [][C28_Monotone]_vars

C28_Witness ==
    /\ prog = "gen" /\ nproc = 2 /\ data_len = 3
    /\ \A r \in Live : /\ epc[r] = "done"
                       /\ counts[r].N = 4 /\ counts[r].N_acc = 2
                       /\ result[r].exact_match_acc = <<2, 4>>

\* C29 as stated: generate_outputs_main ends having written one CSV of outputs
\* for its process under {log_dir}/outputs/train, and generate_output is
\* exhausted only after the last batch, having yielded one record per example
\* of every batch.
C29_OutputsWritten ==
    /\ (fn_pc = "done" /\ fn_call.fn = "generate_outputs_main") =>
          /\ fn_ret.kind = "returned"
          /\ fn_log = <<[file |-> <<"outputs", "train", fn_call.process_index>>,
                         rows |-> fn_call.train]>>
    /\ (fn_pc = "done" /\ fn_call.fn = "generate_output") =>
          /\ fn_ret.kind = "returned"
          /\ Len(fn_log) = Sum(fn_call.batches)

EvaluateDatasetDone == fn_pc = "done" /\ fn_call.fn = "evaluate_dataset"

\* The validation and test data that evaluate_dataset works on.
Available(s) ==
    IF fn_call.dataset # "None" THEN fn_call.loaded[s]
    ELSE IF s = 1 THEN fn_call.val_data ELSE fn_call.test_data

C30_Asserted ==
    fn_call.batch_size # 1
    \/ (fn_call.dataset = "None" /\ fn_call.val_data = -1 /\ fn_call.test_data = -1)

C30_Assertions ==
    C30_Asserted => fn_ret = Raised("AssertionError") /\ fn_log = <<>>

C30_Pair ==
    /\ fn_ret.kind = "returned"
    /\ \A s \in 1..2 :
          /\ fn_ret.value[s] = NoMetrics <=> Available(s) = -1
          /\ fn_ret.value[s] # NoMetrics =>
                fn_ret.value[s].split = (IF s = 1 THEN "validation" ELSE "test")
    /\ fn_log = (IF fn_call.dataset # "None" THEN <<"get_dataset">> ELSE <<>>)
                \o (IF Available(1) # -1 THEN <<"evaluate_via_eos:validation">> ELSE <<>>)
                \o (IF Available(2) # -1 THEN <<"evaluate_via_eos:test">> ELSE <<>>)

\* C30 as stated: the assertions fail before anything is loaded or evaluated;
\* otherwise the pair is returned, a member None iff its split is not
\* available, tagged validation / test, validation evaluated before test.
C30_AlwaysPair ==
    EvaluateDatasetDone => /\ C30_Assertions
                           /\ ~ C30_Asserted => C30_Pair

\* C30 amended: as stated, unless an available split has no example: then
\* evaluate_via_eos raises for the first such split, validation before test,
\* the exception leaves evaluate_dataset and no pair is returned.
C30_PairUnlessEmptySplit ==
    EvaluateDatasetDone =>
        /\ C30_Assertions
        /\ (~ C30_Asserted /\ Available(1) # 0 /\ Available(2) # 0) => C30_Pair
        /\ (~ C30_Asserted /\ (Available(1) = 0 \/ Available(2) = 0)) =>
              /\ fn_ret = Raised("RuntimeError")
              /\ fn_log[Len(fn_log)] =
                    (IF Available(1) = 0 THEN "evaluate_via_eos:validation"
                     ELSE "evaluate_via_eos:test")
              /\ \A i, j \in DOMAIN fn_log :
                    (fn_log[i] = "evaluate_via_eos:test"
                     /\ fn_log[j] = "evaluate_via_eos:validation") => j < i

C30_Witness ==
    /\ EvaluateDatasetDone
    /\ fn_call.dataset = "boolq" /\ fn_call.loaded = <<1, 1>>
    /\ fn_ret = Returned(<<[N |-> 1, split |-> "validation"], [N |-> 1, split |-> "test"]>>)
    /\ fn_log = <<"get_dataset", "evaluate_via_eos:validation", "evaluate_via_eos:test">>

====
